---------------------------- MODULE Spec2Model ----------------------------
(***************************************************************************)
(* Component manager of the ESP32 Arduino framework builder                *)
(* (builder/frameworks/component_manager.py) and the part of               *)
(* builder/frameworks/arduino.py that drives it.                           *)
(*                                                                         *)
(* Lower-casing, prefix/suffix stripping and substring search on strings   *)
(* are computed character by character, not looked up.                     *)
(* The recipe file pioarduino-build.py is modelled as a sequence           *)
(* of lines, a line a sequence of items (a join(...) call, a quoted path,  *)
(* other text, a bare comma, a closing bracket), which is the structure    *)
(* the regular expressions of BuildFileManager discriminate on.            *)
(***************************************************************************)
EXTENDS Integers, Sequences, FiniteSets, TLC

(***************************************************************************)
(* Strings.  TLC evaluates Len, \o, Tail and SubSeq on strings.            *)
(***************************************************************************)
\* Python: sub == s[i-1 : i-1+len(sub)]
OccursAt(s, sub, i) ==
    /\ i >= 1
    /\ i + Len(sub) - 1 <= Len(s)
    /\ SubSeq(s, i, i + Len(sub) - 1) = sub

\* Python: sub in s
Contains(s, sub) == \E i \in 1..(Len(s) - Len(sub) + 1) : OccursAt(s, sub, i)

\* regex  a[^"]*b  inside one quoted string: a, later and not overlapping, b
ContainsThen(s, a, b) ==
    \E i \in 1..Len(s) : \E j \in 1..(Len(s) + 1) :
        OccursAt(s, a, i) /\ OccursAt(s, b, j) /\ j >= i + Len(a)

Uppers == <<"A", "B", "C", "D", "E", "F", "G", "H", "I", "J", "K", "L", "M",
            "N", "O", "P", "Q", "R", "S", "T", "U", "V", "W", "X", "Y", "Z">>
Lowers == <<"a", "b", "c", "d", "e", "f", "g", "h", "i", "j", "k", "l", "m",
            "n", "o", "p", "q", "r", "s", "t", "u", "v", "w", "x", "y", "z">>

LowerChar(c) ==
    IF \E u \in 1..Len(Uppers) : Uppers[u] = c
    THEN Lowers[CHOOSE u \in 1..Len(Uppers) : Uppers[u] = c]
    ELSE c

\* str.lower()
RECURSIVE Lower(_)
Lower(s) == IF s = "" THEN "" ELSE LowerChar(SubSeq(s, 1, 1)) \o Lower(Tail(s))

UpperChar(c) ==
    IF \E u \in 1..Len(Lowers) : Lowers[u] = c
    THEN Uppers[CHOOSE u \in 1..Len(Lowers) : Lowers[u] = c]
    ELSE c

\* str.upper()
RECURSIVE Upper(_)
Upper(s) == IF s = "" THEN "" ELSE UpperChar(SubSeq(s, 1, 1)) \o Upper(Tail(s))

\* str.startswith, str.endswith
StartsWith(s, prefix) == OccursAt(s, prefix, 1)
EndsWith(s, suffix) == OccursAt(s, suffix, Len(s) - Len(suffix) + 1)

\* str.replace(c, to) for a one-character c
RECURSIVE Replace(_, _, _)
Replace(s, c, to) ==
    IF s = "" THEN ""
    ELSE (IF SubSeq(s, 1, 1) = c THEN to ELSE SubSeq(s, 1, 1)) \o Replace(Tail(s), c, to)

IsSpace(c) == c \in {" ", "\t", "\n", "\r"}

\* str.strip()
RECURSIVE LStrip(_)
LStrip(s) == IF s /= "" /\ IsSpace(SubSeq(s, 1, 1)) THEN LStrip(Tail(s)) ELSE s
RECURSIVE RStrip(_)
RStrip(s) ==
    IF s /= "" /\ IsSpace(SubSeq(s, Len(s), Len(s)))
    THEN RStrip(SubSeq(s, 1, Len(s) - 1)) ELSE s
Strip(s) == RStrip(LStrip(s))

\* the index of the first c in s, 0 when there is none (str.find + 1)
RECURSIVE FindFrom(_, _, _)
FindFrom(s, c, i) ==
    IF i > Len(s) THEN 0
    ELSE IF SubSeq(s, i, i) = c THEN i ELSE FindFrom(s, c, i + 1)

Range(f) == {f[i] : i \in DOMAIN f}

\* the value a Python dict given as a set of <<key, value>> pairs holds for k
Lookup(pairs, k) == (CHOOSE kv \in pairs : kv[1] = k)[2]
HasKey(pairs, k) == \E kv \in pairs : kv[1] = k

(***************************************************************************)
(* The recipe file: [lines, nl]; nl is FALSE when the last line has no     *)
(* terminating newline.  Items:                                            *)
(*   join   join(X, "els[1]", ..., "els[n]")  with optional trailing comma *)
(*   path   "els[1]"                          with optional trailing comma *)
(*   text   code without quotes, commas or brackets                        *)
(*   comma  a bare ,                                                       *)
(*   close  ]  (ind: preceded by indentation)                              *)
(* A line <<>> is a blank line.                                            *)
(***************************************************************************)
Join(els, comma) == [k |-> "join", els |-> els, comma |-> comma, ind |-> TRUE]
Path(s, comma) == [k |-> "path", els |-> <<s>>, comma |-> comma, ind |-> TRUE]
Text == [k |-> "text", els |-> <<>>, comma |-> FALSE, ind |-> FALSE]
Comma == [k |-> "comma", els |-> <<>>, comma |-> FALSE, ind |-> FALSE]
Close(ind) == [k |-> "close", els |-> <<>>, comma |-> FALSE, ind |-> ind]

File(lines, nl) == [lines |-> lines, nl |-> IF lines = <<>> THEN TRUE ELSE nl]

Last(s) == s[Len(s)]
Front(s) == SubSeq(s, 1, Len(s) - 1)

\* the text between the last pair of quotes of a join or path item
LastChunk(it) == Last(it.els)

Quoted(it) == it.k \in {"join", "path"} /\ it.els /= <<>>

\* regex tail  [^,\n]*,?\n  after the closing quote of item i: no comma up
\* to the end of the line, but for one that ends the line
TailOK(line, i) ==
    /\ (line[i].comma => i = Len(line))
    /\ \A j \in (i + 1)..Len(line) :
          /\ line[j].k /= "join"
          /\ (line[j].k = "comma" => j = Len(line))
          /\ (line[j].comma => j = Len(line))

\* pattern 1:  .*join\([^,]*,\s*"include",\s*"NAME"[^)]*\),?\n
P1(line, name) ==
    /\ line /= <<>>
    /\ Last(line).k = "join"
    /\ Len(Last(line).els) >= 2
    /\ Last(line).els[1] = "include"
    /\ Last(line).els[2] = name

\* pattern 2:  .*"include/NAME"[^,\n]*,?\n
P2(line, name) ==
    \E i \in 1..Len(line) :
        /\ Quoted(line[i])
        /\ LastChunk(line[i]) = "include/" \o name
        /\ TailOK(line, i)

\* pattern 3:  .*"[^"]*include[^"]*NAME[^"]*"[^,\n]*,?\n
P3(line, name) ==
    \E i \in 1..Len(line) :
        /\ Quoted(line[i])
        /\ ContainsThen(LastChunk(line[i]), "include", name)
        /\ TailOK(line, i)

\* pattern 4:  .*"[^"]*/NAME/include[^"]*"[^,\n]*,?\n
P4(line, name) ==
    \E i \in 1..Len(line) :
        /\ Quoted(line[i])
        /\ Contains(LastChunk(line[i]), "/" \o name \o "/include")
        /\ TailOK(line, i)

\* pattern 5:  .*"[^"]*NAME[^"]*include[^"]*"[^,\n]*,?\n
P5(line, name) ==
    \E i \in 1..Len(line) :
        /\ Quoted(line[i])
        /\ ContainsThen(LastChunk(line[i]), name, "include")
        /\ TailOK(line, i)

\* pattern 6:  .*join\([^)]*"include"[^)]*"NAME"[^)]*\),?\n
P6(line, name) ==
    /\ line /= <<>>
    /\ Last(line).k = "join"
    /\ \E i \in 1..Len(Last(line).els) : \E j \in 1..Len(Last(line).els) :
          i < j /\ Last(line).els[i] = "include" /\ Last(line).els[j] = name

\* pattern 7:  .*"NAME/include"[^,\n]*,?\n
P7(line, name) ==
    \E i \in 1..Len(line) :
        /\ Quoted(line[i])
        /\ LastChunk(line[i]) = name \o "/include"
        /\ TailOK(line, i)

\* pattern 8:  \s*"[^"]*/NAME/[^"]*",?\n
P8(line, name) ==
    /\ line /= <<>>
    /\ Last(line).k = "path"
    /\ Contains(LastChunk(Last(line)), "/" \o name \o "/")

Matches(p, line, name) ==
    CASE p = 1 -> P1(line, name)
      [] p = 2 -> P2(line, name)
      [] p = 3 -> P3(line, name)
      [] p = 4 -> P4(line, name)
      [] p = 5 -> P5(line, name)
      [] p = 6 -> P6(line, name)
      [] p = 7 -> P7(line, name)
      [] p = 8 -> P8(line, name)

\* re.sub(pattern, '', content) for the patterns that start with .* : every
\* matching line that ends in a newline goes, whole
SubLine(f, p, name) ==
    LET keep(l) == ~Matches(p, l, name)
    IN  IF f.nl
        THEN File(SelectSeq(f.lines, keep), TRUE)
        ELSE File(Append(SelectSeq(Front(f.lines), keep), Last(f.lines)), FALSE)


IsBlank(line) == line = <<>>

\* text of line a directly followed by the text of line b; a bare comma that
\* comes to stand right behind a quoted item is that item's trailing comma
MergeLines(a, b) ==
    IF a /= <<>> /\ b /= <<>> /\ b[1].k = "comma"
       /\ Quoted(Last(a)) /\ ~Last(a).comma
    THEN Front(a) \o <<[Last(a) EXCEPT !.comma = TRUE]>> \o Tail(b)
    ELSE a \o b

RECURSIVE DropTrailingBlank(_)
DropTrailingBlank(lines) ==
    IF lines /= <<>> /\ IsBlank(Last(lines))
    THEN DropTrailingBlank(Front(lines))
    ELSE lines

\* re.sub for pattern 8.  The pattern starts with \s*, so a match takes the
\* white space in front of the quoted path with it: when the path is the
\* first item of its line that is the indentation, the blank lines before it
\* and the newline of the line before, which leaves that line open (it
\* continues with whatever follows the match).
\* out: lines produced so far; open: the last line of out has lost its newline
RECURSIVE Sub8From(_, _, _, _, _)
Sub8From(f, name, i, out, open) ==
    IF i > Len(f.lines)
    THEN File(out, IF open THEN FALSE ELSE f.nl)
    ELSE LET l == f.lines[i]
             hasNL == i < Len(f.lines) \/ f.nl
         IN  IF hasNL /\ P8(l, name)
             THEN IF Front(l) /= <<>>
                  THEN IF open
                       THEN Sub8From(f, name, i + 1,
                                Front(out) \o <<MergeLines(Last(out), Front(l))>>, TRUE)
                       ELSE Sub8From(f, name, i + 1, Append(out, Front(l)), TRUE)
                  ELSE IF open
                       THEN Sub8From(f, name, i + 1, out, TRUE)
                       ELSE LET o2 == DropTrailingBlank(out)
                            IN  Sub8From(f, name, i + 1, o2, o2 /= <<>>)
             ELSE IF open
                  THEN Sub8From(f, name, i + 1,
                           Front(out) \o <<MergeLines(Last(out), l)>>, FALSE)
                  ELSE Sub8From(f, name, i + 1, Append(out, l), FALSE)

\* content = re.sub(pattern, '', content), pattern p built for name
Sub(f, p, name) ==
    IF p = 8 THEN Sub8From(f, name, 1, <<>>, FALSE) ELSE SubLine(f, p, name)

\* for pattern in patterns: ... content = re.sub(pattern, '', content)
RECURSIVE ApplyPatterns(_, _, _, _)
ApplyPatterns(f, ps, k, name) ==
    IF k > Len(ps) THEN f ELSE ApplyPatterns(Sub(f, ps[k], name), ps, k + 1, name)

\* content = re.sub(r'\n\s*\n', '\n', content): every blank line goes, but
\* for one that starts the file (no newline in front of it)
Cleanup1(f) ==
    IF f.lines = <<>> THEN f
    ELSE LET nonblank(l) == ~IsBlank(l)
             rest == Tail(f.lines)
         IN  IF f.nl \/ rest = <<>>
             THEN File(<<f.lines[1]>> \o SelectSeq(rest, nonblank), f.nl)
             ELSE File(<<f.lines[1]>> \o SelectSeq(Front(rest), nonblank)
                           \o <<Last(rest)>>, f.nl)

EndsWithComma(line) ==
    line /= <<>> /\ (Last(line).k = "comma" \/ Last(line).comma)

StartsWithClose(line) == line /= <<>> /\ line[1].k = "close"

\* content = re.sub(r',\s*\n\s*\]', '\n]', content): the comma that ends a
\* line in front of a closing bracket goes, with the bracket's indentation
Cleanup2(f) ==
    LET n == Len(f.lines)
        hit(i) == i >= 1 /\ i < n /\ EndsWithComma(f.lines[i])
                     /\ StartsWithClose(f.lines[i + 1])
        noComma(l) == IF Last(l).k = "comma" THEN Front(l)
                      ELSE Front(l) \o <<[Last(l) EXCEPT !.comma = FALSE]>>
        noIndent(l) == <<[l[1] EXCEPT !.ind = FALSE]>> \o Tail(l)
        fix(i) == LET l1 == IF hit(i - 1) THEN noIndent(f.lines[i]) ELSE f.lines[i]
                  IN  IF hit(i) THEN noComma(l1) ELSE l1
    IN  File([i \in 1..n |-> fix(i)], f.nl)

\* len(content.splitlines())
LineCount(f) == Len(f.lines)

\* a gate that compares the removed lines with the whole file, not with half
\* of it
validate_without_half(original_content, new_content) ==
    LET original_lines == LineCount(original_content)
        new_lines == LineCount(new_content)
        removed_lines == original_lines - new_lines
    IN  ~(removed_lines > original_lines \/ removed_lines < 0)

\* BuildFileManager._validate_changes
_validate_changes(original_content, new_content) ==
    LET original_lines == LineCount(original_content)
        new_lines == LineCount(new_content)
        removed_lines == original_lines - new_lines
    IN  ~(2 * removed_lines > original_lines \/ removed_lines < 0)


(***************************************************************************)
(* ProjectAnalyzer                                                         *)
(***************************************************************************)
\* _extract_components_from_file: component -> code patterns
component_patterns ==
    { [component |-> "bt", keywords |-> {"bluetooth", "ble", "nimble", "bt_", "esp_bt", "esp_ble"}],
      [component |-> "esp_wifi", keywords |-> {"wifi", "esp_wifi", "tcpip_adapter"}],
      [component |-> "esp_dsp", keywords |-> {"dsps_", "esp_dsp", "fft2r", "dsps_fft2r"}],
      [component |-> "esp_http_client", keywords |-> {"esp_http_client", "http_client"}],
      [component |-> "esp_https_ota", keywords |-> {"esp_https_ota", "esp_ota"}],
      [component |-> "mdns", keywords |-> {"mdns", "esp_mdns"}],
      [component |-> "mqtt", keywords |-> {"mqtt", "esp_mqtt"}],
      [component |-> "spiffs", keywords |-> {"spiffs", "esp_spiffs"}],
      [component |-> "fatfs", keywords |-> {"fatfs", "ff.h"}],
      [component |-> "nvs_flash", keywords |-> {"nvs", "nvs_flash"}],
      [component |-> "esp_timer", keywords |-> {"esp_timer", "timer_"}],
      [component |-> "driver", keywords |-> {"gpio_", "uart_", "spi_", "i2c_", "adc_", "dac_"}],
      [component |-> "esp_camera", keywords |-> {"esp_camera", "camera.h"}],
      [component |-> "esp_now", keywords |-> {"esp_now", "espnow"}],
      [component |-> "esp_smartconfig", keywords |-> {"smartconfig", "esp_smartconfig"}],
      [component |-> "esp_eth", keywords |-> {"esp_eth", "ethernet"}],
      [component |-> "esp_websocket_client", keywords |-> {"websocket", "esp_websocket"}],
      [component |-> "cjson", keywords |-> {"cjson", "json"}],
      [component |-> "mbedtls", keywords |-> {"mbedtls", "ssl"}],
      [component |-> "openssl", keywords |-> {"openssl"}] }

\* _extract_components_from_lib_dep: component -> keywords
lib_dep_mapping ==
    { [component |-> "bt", keywords |-> {"BLE", "BT", "BLUETOOTH", "NIMBLE"}],
      [component |-> "esp_wifi", keywords |-> {"WIFI", "ASYNCTCP", "ESPASYNCWEBSERVER"}],
      [component |-> "esp_dsp", keywords |-> {"DSP", "FFT", "JPEG"}],
      [component |-> "esp_http_client", keywords |-> {"HTTP", "HTTPCLIENT"}],
      [component |-> "mqtt", keywords |-> {"MQTT", "PUBSUB"}],
      [component |-> "esp_camera", keywords |-> {"CAMERA", "ESP32CAM"}],
      [component |-> "esp_now", keywords |-> {"ESPNOW", "ESP_NOW"}],
      [component |-> "mdns", keywords |-> {"MDNS"}],
      [component |-> "esp_eth", keywords |-> {"ETHERNET"}] }

SourceExtensions == {".cpp", ".c", ".h", ".hpp", ".ino"}

\* an extraction that looks for the patterns in the content as it is written
extract_case_sensitive(content) ==
    {e.component : e \in {x \in component_patterns :
                             \E pattern \in x.keywords : Contains(content, pattern)}}

\* ProjectAnalyzer._extract_components_from_file, on the content of the file
_extract_components_from_file(content) ==
    LET content_lower == Lower(content)
    IN  {e.component : e \in {x \in component_patterns :
                                 \E pattern \in x.keywords : Contains(content_lower, pattern)}}

\* ProjectAnalyzer._extract_components_from_lib_dep
_extract_components_from_lib_dep(lib_dep) ==
    LET lib_dep_upper == Upper(lib_dep)
    IN  {e.component : e \in {x \in lib_dep_mapping :
                                 \E keyword \in x.keywords : Contains(lib_dep_upper, keyword)}}

\* ProjectAnalyzer.analyze_project_dependencies: sources is the set of the
\* files [name, content] under $PROJECT_SRC_DIR, lib_deps the option's list
analyze_project_dependencies(sources, lib_deps) ==
    UNION {_extract_components_from_file(file.content) :
              file \in {x \in sources : \E ext \in SourceExtensions : EndsWith(x.name, ext)}}
    \cup UNION {_extract_components_from_lib_dep(lib_deps[i]) : i \in 1..Len(lib_deps)}

\* ProjectAnalyzer.is_component_used_in_project, on the cached set:
\* direct match, or partial match in either direction
IsUsed(lib_name, cache) ==
    LET lib_name_lower == Lower(lib_name)
    IN  \/ lib_name_lower \in cache
        \/ \E used_component \in cache :
              \/ Contains(used_component, lib_name_lower)
              \/ Contains(lib_name_lower, used_component)

(***************************************************************************)
(* BuildFileManager: the edits of the recipe file                          *)
(***************************************************************************)
IgnoredPatterns == <<1, 2, 3, 4, 5, 6, 7, 8>>
CpppathPatterns == <<1, 2, 3>>

\* the iteration orders of a Python set
Orders(S) ==
    {o \in [1..Cardinality(S) -> S] : \A i, j \in 1..Cardinality(S) : o[i] = o[j] => i = j}

\* for lib_name in ignored_libs: skip the used ones, apply the patterns of
\* the others (order: the iteration order of the set)
RECURSIVE StripLibs(_, _, _, _)
StripLibs(f, order, k, cache) ==
    IF k > Len(order) THEN f
    ELSE IF IsUsed(order[k], cache)
         THEN StripLibs(f, order, k + 1, cache)
         ELSE StripLibs(ApplyPatterns(f, IgnoredPatterns, 1, order[k]), order, k + 1, cache)

\* the content remove_ignored_lib_includes computes before it validates
IgnoredEdit(f, order, cache) == Cleanup2(Cleanup1(StripLibs(f, order, 1, cache)))

\* what remove_ignored_lib_includes writes for the content edit it computed
\* from f: nothing when the edit does not pass _validate_changes
Validated(f, edit) == IF _validate_changes(f, edit) /\ edit /= f THEN edit ELSE f

\* the content of the file after remove_ignored_lib_includes
IgnoredResult(f, order, cache) ==
    LET content == IgnoredEdit(f, order, cache)
    IN  Validated(f, content)

\* for component in removed_components: for pattern in patterns: re.sub
RECURSIVE CpppathEdit(_, _, _)
CpppathEdit(f, order, k) ==
    IF k > Len(order) THEN f
    ELSE CpppathEdit(ApplyPatterns(f, CpppathPatterns, 1, order[k]), order, k + 1)

\* the content of the file after remove_cpppath_entries
CpppathResult(f, order) ==
    LET content == CpppathEdit(f, order, 1)
    IN  IF content /= f THEN content ELSE f

(***************************************************************************)
(* ComponentLogger.  An entry of the change log is [event, about]: the     *)
(* fixed text of the message and the name or file it is about (the counts  *)
(* and error texts of the messages are left out).                          *)
(***************************************************************************)
Entry(event, about) == [event |-> event, about |-> about]

\* for pattern in patterns: if matches: content = re.sub(...);
\* log_change("Removed N include entries for library"): the content and the
\* entries appended after the patterns k.. of one library
RECURSIVE PatternsRun(_, _, _, _, _)
PatternsRun(f, ps, k, name, log) ==
    IF k > Len(ps) THEN [f |-> f, log |-> log]
    ELSE LET content == Sub(f, ps[k], name)
         IN  PatternsRun(content, ps, k + 1, name,
                 IF content /= f
                 THEN Append(log, Entry("Removed include entries for library", name))
                 ELSE log)

\* a loop that asks no analyzer and removes the entries of every library
RECURSIVE run_without_skip(_, _, _, _, _)
run_without_skip(f, order, k, cache, log) ==
    IF k > Len(order) THEN [f |-> f, log |-> log]
    ELSE LET run == PatternsRun(f, IgnoredPatterns, 1, order[k], log)
         IN  run_without_skip(run.f, order, k + 1, cache, run.log)

\* the loop of remove_ignored_lib_includes: the content and the entries
\* appended after the libraries k.. of order
RECURSIVE IgnoredRun(_, _, _, _, _)
IgnoredRun(f, order, k, cache, log) ==
    IF k > Len(order) THEN [f |-> f, log |-> log]
    ELSE IF IsUsed(order[k], cache)
         THEN IgnoredRun(f, order, k + 1, cache,
                         Append(log, Entry("Skipping removal of library", order[k])))
         ELSE LET run == PatternsRun(f, IgnoredPatterns, 1, order[k], log)
              IN  IgnoredRun(run.f, order, k + 1, cache, run.log)

(***************************************************************************)
(* LibraryMapper                                                           *)
(***************************************************************************)
\* _map_library_to_include_path: <<library name, include path>>
extended_mapping ==
    { <<"wifi", "esp_wifi">>, <<"bluetooth", "bt">>,
      <<"bluetoothserial", "bt">>, <<"ble", "bt">>, <<"bt", "bt">>,
      <<"ethernet", "esp_eth">>, <<"websocket", "esp_websocket_client">>,
      <<"http", "esp_http_client">>, <<"https", "esp_https_ota">>,
      <<"ota", "esp_https_ota">>, <<"spiffs", "spiffs">>,
      <<"fatfs", "fatfs">>, <<"mesh", "esp_wifi_mesh">>,
      <<"smartconfig", "esp_smartconfig">>, <<"mdns", "mdns">>,
      <<"coap", "coap">>, <<"mqtt", "mqtt">>, <<"json", "cjson">>,
      <<"mbedtls", "mbedtls">>, <<"openssl", "openssl">>,
      <<"esp32blearduino", "bt">>, <<"esp32_ble_arduino", "bt">>,
      <<"esp32", "esp32">>, <<"wire", "driver">>, <<"spi", "driver">>,
      <<"i2c", "driver">>, <<"uart", "driver">>, <<"serial", "driver">>,
      <<"analogwrite", "driver">>, <<"ledc", "driver">>,
      <<"pwm", "driver">>, <<"dac", "driver">>, <<"adc", "driver">>,
      <<"touch", "driver">>, <<"hall", "driver">>, <<"rtc", "driver">>,
      <<"timer", "esp_timer">>, <<"preferences", "arduino_preferences">>,
      <<"eeprom", "arduino_eeprom">>, <<"update", "esp_https_ota">>,
      <<"httpupdate", "esp_https_ota">>,
      <<"httpclient", "esp_http_client">>,
      <<"httpsclient", "esp_https_ota">>, <<"wifimanager", "esp_wifi">>,
      <<"wificlientsecure", "esp_wifi">>, <<"wifiserver", "esp_wifi">>,
      <<"wifiudp", "esp_wifi">>, <<"wificlient", "esp_wifi">>,
      <<"wifiap", "esp_wifi">>, <<"wifimulti", "esp_wifi">>,
      <<"esp32webserver", "esp_http_server">>,
      <<"webserver", "esp_http_server">>,
      <<"asyncwebserver", "esp_http_server">>, <<"dnsserver", "lwip">>,
      <<"netbios", "netbios">>, <<"simpletime", "lwip">>, <<"fs", "vfs">>,
      <<"sd", "fatfs">>, <<"sd_mmc", "fatfs">>,
      <<"littlefs", "esp_littlefs">>, <<"ffat", "fatfs">>,
      <<"camera", "esp32_camera">>, <<"esp_camera", "esp32_camera">>,
      <<"arducam", "esp32_camera">>, <<"rainmaker", "esp_rainmaker">>,
      <<"esp_rainmaker", "esp_rainmaker">>,
      <<"provisioning", "wifi_provisioning">>,
      <<"wifiprovisioning", "wifi_provisioning">>, <<"espnow", "esp_now">>,
      <<"esp_now", "esp_now">>, <<"esptouch", "esp_smartconfig">>,
      <<"ping", "lwip">>, <<"netif", "lwip">>, <<"tcpip", "lwip">> }

\* convert_lib_name_to_include: <<cleaned name, include path>>
direct_mapping ==
    { <<"ble", "bt">>, <<"bluetooth", "bt">>, <<"bluetoothserial", "bt">> }

prefixes_to_remove == <<"lib", "arduino-", "esp32-", "esp-">>
suffixes_to_remove == <<"-lib", "-library", ".h">>

\* LibraryMapper._map_library_to_include_path
_map_library_to_include_path(lib_name, dir_name) ==
    LET lib_name_lower == Replace(Replace(Lower(lib_name), " ", ""), "-", "_")
        dir_name_lower == Lower(dir_name)
    IN  IF HasKey(extended_mapping, lib_name_lower)
        THEN Lookup(extended_mapping, lib_name_lower)
        ELSE IF HasKey(extended_mapping, dir_name_lower)
             THEN Lookup(extended_mapping, dir_name_lower)
             ELSE dir_name_lower

\* dict assignment d[k] = v on a set of <<key, value>> pairs
Put(pairs, k, v) == {kv \in pairs : kv[1] /= k} \cup {<<k, v>>}

\* LibraryMapper._get_arduino_core_libraries: libraries is the listing of
\* <framework>/libraries, [entry, name] with name the name= line of the
\* entry's library.properties ("" when it has none)
RECURSIVE _get_arduino_core_libraries(_, _, _)
_get_arduino_core_libraries(libraries, i, libraries_mapping) ==
    IF i > Len(libraries) THEN libraries_mapping
    ELSE LET entry == libraries[i].entry
             lib_name == libraries[i].name
             include_path == _map_library_to_include_path(lib_name, entry)
         IN  IF lib_name /= ""
             THEN _get_arduino_core_libraries(libraries, i + 1,
                      Put(Put(libraries_mapping, Lower(lib_name), include_path),
                          Lower(entry), include_path))
             ELSE _get_arduino_core_libraries(libraries, i + 1, libraries_mapping)

RECURSIVE RemovePrefixes(_, _)
RemovePrefixes(cleaned_name, i) ==
    IF i > Len(prefixes_to_remove) THEN cleaned_name
    ELSE IF StartsWith(cleaned_name, prefixes_to_remove[i])
         THEN RemovePrefixes(SubSeq(cleaned_name, Len(prefixes_to_remove[i]) + 1,
                                    Len(cleaned_name)), i + 1)
         ELSE RemovePrefixes(cleaned_name, i + 1)

RECURSIVE RemoveSuffixes(_, _)
RemoveSuffixes(cleaned_name, i) ==
    IF i > Len(suffixes_to_remove) THEN cleaned_name
    ELSE IF EndsWith(cleaned_name, suffixes_to_remove[i])
         THEN RemoveSuffixes(SubSeq(cleaned_name, 1,
                                    Len(cleaned_name) - Len(suffixes_to_remove[i])), i + 1)
         ELSE RemoveSuffixes(cleaned_name, i + 1)

\* a conversion without the direct mapping of the Bluetooth names
convert_without_direct(lib_name, cache) ==
    LET lib_name_lower == Lower(lib_name)
        cleaned_name == RemoveSuffixes(RemovePrefixes(lib_name_lower, 1), 1)
    IN  IF HasKey(cache, lib_name_lower) THEN Lookup(cache, lib_name_lower)
        ELSE IF HasKey(cache, cleaned_name) THEN Lookup(cache, cleaned_name)
        ELSE cleaned_name

\* LibraryMapper.convert_lib_name_to_include, on the loaded cache
convert_lib_name_to_include(lib_name, cache) ==
    LET lib_name_lower == Lower(lib_name)
        cleaned_name == RemoveSuffixes(RemovePrefixes(lib_name_lower, 1), 1)
    IN  IF HasKey(cache, lib_name_lower) THEN Lookup(cache, lib_name_lower)
        ELSE IF HasKey(cache, cleaned_name) THEN Lookup(cache, cleaned_name)
        ELSE IF HasKey(direct_mapping, cleaned_name)
             THEN Lookup(direct_mapping, cleaned_name)
             ELSE cleaned_name

(***************************************************************************)
(* ComponentManager: pure parts                                            *)
(***************************************************************************)
critical_components ==
    { "lwip", "freertos", "esp_system", "esp_common", "driver", "nvs_flash",
      "spi_flash", "esp_timer", "esp_event", "log" }

\* the entries without the filter on critical_components
entries_with_critical(lib_ignore, cache) ==
    LET stripped == [i \in 1..Len(lib_ignore) |-> Strip(lib_ignore[i])]
        nonempty(entry) == entry /= ""
        present == SelectSeq(stripped, nonempty)
    IN  [i \in 1..Len(present) |-> convert_lib_name_to_include(present[i], cache)]

\* ComponentManager._get_lib_ignore_entries: lib_ignore is the option's list
_get_lib_ignore_entries(lib_ignore, cache) ==
    LET stripped == [i \in 1..Len(lib_ignore) |-> Strip(lib_ignore[i])]
        nonempty(entry) == entry /= ""
        present == SelectSeq(stripped, nonempty)
        cleaned_entries ==
            [i \in 1..Len(present) |-> convert_lib_name_to_include(present[i], cache)]
        notcritical(entry) == entry \notin critical_components
    IN  SelectSeq(cleaned_entries, notcritical)

\* ComponentManager._convert_component_name_to_filesystem
_convert_component_name_to_filesystem(component_name) ==
    Replace(component_name, "/", "__")

\* ComponentManager._parse_component_entry: <<name, version>>
parse_at_last(entry) ==
    LET at == CHOOSE i \in 0..Len(entry) :
                  /\ i > 0 => SubSeq(entry, i, i) = "@"
                  /\ \A j \in (i + 1)..Len(entry) : SubSeq(entry, j, j) /= "@"
                  /\ i = 0 => \A j \in 1..Len(entry) : SubSeq(entry, j, j) /= "@"
    IN  IF at > 0
        THEN <<Strip(SubSeq(entry, 1, at - 1)), Strip(SubSeq(entry, at + 1, Len(entry)))>>
        ELSE <<Strip(entry), "*">>

_parse_component_entry(entry) ==
    LET at == FindFrom(entry, "@", 1)
    IN  IF at > 0
        THEN <<Strip(SubSeq(entry, 1, at - 1)), Strip(SubSeq(entry, at + 1, Len(entry)))>>
        ELSE <<Strip(entry), "*">>


\* str.splitlines() of a configuration option
RECURSIVE SplitLines(_)
SplitLines(s) ==
    IF s = "" THEN <<>>
    ELSE LET n == FindFrom(s, "\n", 1)
         IN  IF n = 0 THEN <<s>>
             ELSE <<SubSeq(s, 1, n - 1)>> \o SplitLines(SubSeq(s, n + 1, Len(s)))

\* a file or cache that may be absent: None, or Some(value)
None == <<>>
Some(x) == <<x>>

(***************************************************************************)
(* State                                                                   *)
(***************************************************************************)
VARIABLES
    env,                        \* project options and project tree (inputs)
    recipe,                     \* <libs>/<mcu>/pioarduino-build.py
    backup,                     \* <libs>/<mcu>/pioarduino-build.py.<mcu>
    framework_yml,              \* <framework>/idf_component.yml
    project_yml,                \* <src>/idf_component.yml
    framework_yml_orig,         \* <framework>/idf_component.yml.orig
    project_yml_orig,           \* <src>/idf_component.yml.orig
    include_dirs,               \* the directories of <libs>/<mcu>/include
    removed_components,         \* ComponentManager.removed_components
    ignored_libs,               \* ComponentManager.ignored_libs
    project_components_cache,   \* ProjectAnalyzer._project_components_cache
    arduino_libraries_cache,    \* LibraryMapper._arduino_libraries_cache
    start,                      \* history: the recipe file when the session began
    last,                       \* history: the last call and its arguments
    copies,                     \* history: backup copies made, in all and since
                                \* the last restore (counted up to 2)
    outcome,                    \* what the last call returned, whether it raised,
                                \* and the entries it appended to
                                \* ComponentLogger.component_changes
    presave,                    \* history: each manifest as it was before the
                                \* first handle_component_settings call of the
                                \* session that saved it
    disk,                       \* the files of <libs>, by path, when several
                                \* sessions run at the same time
    sessions,                   \* the sessions that run at the same time
    lock,                       \* _PATH_SHORTENING_LOCK: 0, or the thread holding it
    messages,                   \* _PATH_SHORTENING_MESSAGES
    threads,                    \* the threads that compile the nodes of the build
    printed                     \* history: how often each one-time message was
                                \* printed (counted up to 2)

files == <<recipe, backup, framework_yml, project_yml, framework_yml_orig,
           project_yml_orig, include_dirs>>
manager == <<removed_components, ignored_libs, project_components_cache,
             arduino_libraries_cache>>
parallel == <<disk, sessions, lock, messages, threads, printed>>
vars == <<env, files, manager, start, last, copies, outcome, presave, parallel>>

(***************************************************************************)
(* BuildFileManager: backup and restore                                    *)
(***************************************************************************)
\* a backup that copies without looking for an existing backup file
backup_overwriting(PIOFRAMEWORK, build_py, backup_file) ==
    IF ~Contains(PIOFRAMEWORK, "arduino")
    THEN [backup |-> backup_file, copied |-> FALSE]
    ELSE IF build_py /= None
         THEN [backup |-> build_py, copied |-> TRUE]
         ELSE [backup |-> backup_file, copied |-> FALSE]

\* BuildFileManager.backup_pioarduino_build_py: the backup file after the
\* call, and whether shutil.copy2 ran
backup_pioarduino_build_py(PIOFRAMEWORK, build_py, backup_file) ==
    IF ~Contains(PIOFRAMEWORK, "arduino")
    THEN [backup |-> backup_file, copied |-> FALSE]
    ELSE IF build_py /= None /\ backup_file = None
         THEN [backup |-> build_py, copied |-> TRUE]
         ELSE [backup |-> backup_file, copied |-> FALSE]

\* a restore that copies the backup back and leaves the backup file
restore_keeping_backup(build_py, backup_file) ==
    IF backup_file /= None
    THEN [recipe |-> backup_file, backup |-> backup_file]
    ELSE [recipe |-> build_py, backup |-> backup_file]

\* BuildFileManager.restore_pioarduino_build_py
restore_pioarduino_build_py(build_py, backup_file) ==
    IF backup_file /= None
    THEN [recipe |-> backup_file, backup |-> None]
    ELSE [recipe |-> build_py, backup |-> backup_file]

\* an analyzer that runs the analysis again while its result is empty
analysis_while_empty(cache, e) ==
    IF cache = None \/ cache = Some({})
    THEN Some(analyze_project_dependencies(e.sources, e.lib_deps))
    ELSE cache

\* ProjectAnalyzer.is_component_used_in_project fills the cache on first use
LoadedAnalysis(cache, e) ==
    IF cache = None
    THEN Some(analyze_project_dependencies(e.sources, e.lib_deps))
    ELSE cache

\* LibraryMapper.convert_lib_name_to_include fills the cache on first use
LoadedLibraries(cache, e) ==
    IF cache = None
    THEN Some(_get_arduino_core_libraries(e.libraries, 1, {}))
    ELSE cache

\* the entry backup_pioarduino_build_py appends when it copies
BackupLog(copied) ==
    IF copied THEN <<Entry("Created backup of pioarduino-build.py", "mcu")>> ELSE <<>>

\* the entry restore_pioarduino_build_py appends when it restores
RestoreLog(backup_file) ==
    IF backup_file /= None
    THEN <<Entry("Restored original pioarduino-build.py from backup", "")>> ELSE <<>>

\* remove_ignored_lib_includes without its try/except
remove_ignored_unguarded(build_py, order, cache, e, fails) ==
    IF build_py = None
    THEN [recipe |-> build_py, cache |-> cache, log |-> <<>>, raised |-> FALSE]
    ELSE IF fails
    THEN [recipe |-> build_py, cache |-> cache, log |-> <<>>, raised |-> TRUE]
    ELSE LET loaded == IF order = <<>> THEN cache ELSE LoadedAnalysis(cache, e)
             used == IF order = <<>> THEN {} ELSE loaded[1]
             run == IgnoredRun(build_py[1], order, 1, used, <<>>)
             content == Validated(build_py[1], Cleanup2(Cleanup1(run.f)))
         IN  [recipe |-> Some(content), cache |-> loaded,
              log |-> IF content /= build_py[1]
                      THEN Append(run.log, Entry("Successfully updated build file", ""))
                      ELSE run.log,
              raised |-> FALSE]

\* BuildFileManager.remove_ignored_lib_includes: the file and the analyzer's
\* cache after the call, the entries it appends to the change log and
\* whether it raises; order is the iteration order of ignored_libs, fails
\* says that reading the file raises
remove_ignored_lib_includes(build_py, order, cache, e, fails) ==
    IF build_py = None
    THEN [recipe |-> build_py, cache |-> cache, log |-> <<>>, raised |-> FALSE]
    ELSE IF fails
    THEN [recipe |-> build_py, cache |-> cache,
          log |-> <<Entry("Error processing ignored library includes", "")>>,
          raised |-> FALSE]
    ELSE LET loaded == IF order = <<>> THEN cache ELSE LoadedAnalysis(cache, e)
             used == IF order = <<>> THEN {} ELSE loaded[1]
             run == IgnoredRun(build_py[1], order, 1, used, <<>>)
             content == Validated(build_py[1], Cleanup2(Cleanup1(run.f)))
         IN  [recipe |-> Some(content), cache |-> loaded,
              log |-> IF content /= build_py[1]
                      THEN Append(run.log, Entry("Successfully updated build file", ""))
                      ELSE run.log,
              raised |-> FALSE]

\* BuildFileManager.remove_cpppath_entries
remove_cpppath_entries(build_py, order) ==
    IF build_py = None THEN build_py ELSE Some(CpppathResult(build_py[1], order))

\* the entry remove_cpppath_entries appends when it writes the file: build_py
\* before the call, cleaned after it
CpppathLog(build_py, cleaned) ==
    IF cleaned /= build_py
    THEN <<Entry("Cleaned up CPPPATH entries for removed components", "")>> ELSE <<>>

(***************************************************************************)
(* ComponentYamlHandler.  A manifest is [dependencies |-> d], d the set of *)
(* <<name, value>> entries of the mapping; a value is [version, scalar]:   *)
(* scalar for  name: ">=5.1",  a mapping  name: {version: "*"}  otherwise. *)
(*                                                                         *)
(* What yaml.load returns is a Python value: a dict (a function from its   *)
(* keys), a list, or None.  What yaml.dump writes is a YAML document, a    *)
(* sequence of lines: "key: value" lines in the order of the sorted keys   *)
(* for a dict, "- item" lines for a list, and the one-line documents {},   *)
(* [] and null for the empty dict, the empty list and None.                *)
(***************************************************************************)
Dict(m) == [type |-> "dict", v |-> m]
List(l) == [type |-> "list", v |-> l]
PyNone == [type |-> "none", v |-> <<>>]

\* bool(x) of a Python value
Truthy(x) == x.type /= "none" /\ DOMAIN x.v /= {}

PairLine(key, value) == [k |-> "pair", key |-> key, value |-> value]
ItemLine(item) == [k |-> "item", key |-> "-", value |-> item]
FlowLine(doc) == [k |-> "flow", key |-> doc, value |-> ""]
\* a line that is no YAML, and a line of bytes that do not decode as text
JunkLine == [k |-> "junk", key |-> "", value |-> ""]
Undecodable == [k |-> "bytes", key |-> "", value |-> ""]

\* the keys of the manifests of the model, as sorted() orders them
KeyOrder == <<"dependencies", "description", "version">>

\* a dump that writes the dependencies of a dict and leaves out its other keys
dump_dependencies_only(data) ==
    IF data.type = "dict" /\ "dependencies" \in DOMAIN data.v
    THEN <<PairLine("dependencies", data.v.dependencies)>>
    ELSE <<FlowLine("{}")>>

\* yaml.dump(data, f): the document written
yaml_dump(data) ==
    IF data.type = "none" THEN <<FlowLine("null")>>
    ELSE IF data.type = "list"
    THEN IF data.v = <<>> THEN <<FlowLine("[]")>>
         ELSE [i \in 1..Len(data.v) |-> ItemLine(data.v[i])]
    ELSE IF DOMAIN data.v = {} THEN <<FlowLine("{}")>>
         ELSE LET IsKey(key) == key \in DOMAIN data.v
                  keys == SelectSeq(KeyOrder, IsKey)
              IN  [i \in 1..Len(keys) |-> PairLine(keys[i], data.v[keys[i]])]

\* yaml.load(f, Loader=SafeLoader): the value, or raised for a document
\* that cannot be read or parsed; of two lines with one key the later counts
yaml_load(text) ==
    LET kinds == {text[i].k : i \in 1..Len(text)}
    IN  IF text = <<>> THEN [raised |-> FALSE, value |-> PyNone]
        ELSE IF kinds = {"pair"}
        THEN [raised |-> FALSE,
              value |-> Dict([key \in {text[i].key : i \in 1..Len(text)} |->
                          text[CHOOSE i \in 1..Len(text) :
                                   /\ text[i].key = key
                                   /\ \A j \in (i + 1)..Len(text) : text[j].key /= key].value])]
        ELSE IF kinds = {"item"}
        THEN [raised |-> FALSE, value |-> List([i \in 1..Len(text) |-> text[i].value])]
        ELSE IF kinds = {"flow"} /\ Len(text) = 1
        THEN IF text[1].key = "{}" THEN [raised |-> FALSE, value |-> Dict(<<>>)]
             ELSE IF text[1].key = "[]" THEN [raised |-> FALSE, value |-> List(<<>>)]
             ELSE IF text[1].key = "null" THEN [raised |-> FALSE, value |-> PyNone]
             ELSE [raised |-> TRUE, value |-> PyNone]
        ELSE [raised |-> TRUE, value |-> PyNone]

\* ComponentYamlHandler._create_default_component_yml
default_content ==
    [dependencies |-> {<<"idf", [version |-> ">=5.1", scalar |-> TRUE]>>}]

\* a backup that copies the manifest over an existing .orig file
backup_always(file, orig) == file

\* ComponentYamlHandler._create_backup: the .orig file after the call
_create_backup(file, orig) == IF orig = None THEN file ELSE orig

\* the entry _create_backup appends when it copies
CreateBackupLog(path, orig) ==
    IF orig = None THEN <<Entry("Created backup", path)>> ELSE <<>>

\* ComponentYamlHandler.get_or_create_component_yml: the path returned, the
\* four files after the call and the entries appended to the change log
get_or_create_component_yml(fw, proj, fw_orig, proj_orig) ==
    IF fw /= None
    THEN [path |-> "framework", framework_yml |-> fw, project_yml |-> proj,
          framework_yml_orig |-> _create_backup(fw, fw_orig),
          project_yml_orig |-> proj_orig,
          log |-> CreateBackupLog("framework", fw_orig)]
    ELSE IF proj /= None
         THEN [path |-> "project", framework_yml |-> fw, project_yml |-> proj,
               framework_yml_orig |-> fw_orig,
               project_yml_orig |-> _create_backup(proj, proj_orig),
               log |-> CreateBackupLog("project", proj_orig)]
         ELSE [path |-> "project", framework_yml |-> fw,
               project_yml |-> Some(yaml_dump(Dict(default_content))),
               framework_yml_orig |-> fw_orig, project_yml_orig |-> proj_orig,
               log |-> <<Entry("Created new component.yml file", "project")>>]

\* what a call gives its caller when it raises
Raised == [type |-> "raised", v |-> <<>>]

\* load_component_yml without its except clause and without the default for
\* an empty document
load_unguarded(file) ==
    LET loaded == IF file = None THEN [raised |-> TRUE, value |-> PyNone]
                                 ELSE yaml_load(file[1])
    IN  IF loaded.raised THEN Raised ELSE loaded.value

\* ComponentYamlHandler.load_component_yml: the value returned
load_component_yml(file) ==
    LET loaded == IF file = None THEN [raised |-> TRUE, value |-> PyNone]
                                 ELSE yaml_load(file[1])
    IN  IF loaded.raised THEN Dict([dependencies |-> {}])
        ELSE IF Truthy(loaded.value) THEN loaded.value
        ELSE Dict([dependencies |-> {}])

\* save_component_yml without its except clause
save_unguarded(file, path, data, fails) ==
    IF fails
    THEN [file |-> file, log |-> <<>>, raised |-> TRUE]
    ELSE [file |-> Some(yaml_dump(data)),
          log |-> <<Entry("Saved component configuration", path)>>, raised |-> FALSE]

\* ComponentYamlHandler.save_component_yml: the file after the call, the
\* entry appended to the change log and whether the call raises; fails says
\* that opening the file for writing raises
save_component_yml(file, path, data, fails) ==
    IF fails
    THEN [file |-> file, log |-> <<Entry("Error saving component configuration", path)>>,
          raised |-> FALSE]
    ELSE [file |-> Some(yaml_dump(data)),
          log |-> <<Entry("Saved component configuration", path)>>, raised |-> FALSE]

(***************************************************************************)
(* ComponentManager                                                        *)
(***************************************************************************)
\* dependencies = component_data.setdefault("dependencies", {})
setdefault(m) ==
    IF "dependencies" \in DOMAIN m THEN m
    ELSE [key \in DOMAIN m \cup {"dependencies"} |->
             IF key = "dependencies" THEN {} ELSE m[key]]

\* a _remove_components that starts removed_components anew on every call
RECURSIVE remove_forgetting(_, _, _, _)
remove_forgetting(dependencies, components_to_remove, i, removed) ==
    IF i = 1 /\ removed /= {}
    THEN remove_forgetting(dependencies, components_to_remove, 1, {})
    ELSE IF i > Len(components_to_remove)
    THEN [dependencies |-> dependencies, removed_components |-> removed]
    ELSE LET component == Strip(components_to_remove[i])
         IN  IF component /= "" /\ HasKey(dependencies, component)
             THEN remove_forgetting({kv \in dependencies : kv[1] /= component},
                      components_to_remove, i + 1,
                      removed \cup {_convert_component_name_to_filesystem(component)})
             ELSE remove_forgetting(dependencies, components_to_remove, i + 1, removed)

\* a _remove_components that tracks every requested name for the cleanup,
\* whether the manifest had it or not
RECURSIVE remove_tracking_missing(_, _, _, _)
remove_tracking_missing(dependencies, components_to_remove, i, removed) ==
    IF i > Len(components_to_remove)
    THEN [dependencies |-> dependencies, removed_components |-> removed]
    ELSE LET component == Strip(components_to_remove[i])
         IN  IF component /= ""
             THEN remove_tracking_missing({kv \in dependencies : kv[1] /= component},
                      components_to_remove, i + 1,
                      removed \cup {_convert_component_name_to_filesystem(component)})
             ELSE remove_tracking_missing(dependencies, components_to_remove, i + 1,
                                          removed)

\* ComponentManager._remove_components: the dependencies and the removed set
\* after the loop over the lines i.. of custom_component_remove
RECURSIVE _remove_components(_, _, _, _)
_remove_components(dependencies, components_to_remove, i, removed) ==
    IF i > Len(components_to_remove)
    THEN [dependencies |-> dependencies, removed_components |-> removed]
    ELSE LET component == Strip(components_to_remove[i])
         IN  IF component /= "" /\ HasKey(dependencies, component)
             THEN _remove_components({kv \in dependencies : kv[1] /= component},
                      components_to_remove, i + 1,
                      removed \cup {_convert_component_name_to_filesystem(component)})
             ELSE _remove_components(dependencies, components_to_remove, i + 1, removed)

\* the entries _remove_components appends to the change log
RECURSIVE RemoveLog(_, _, _)
RemoveLog(dependencies, components_to_remove, i) ==
    IF i > Len(components_to_remove) THEN <<>>
    ELSE LET component == Strip(components_to_remove[i])
         IN  IF component /= "" /\ HasKey(dependencies, component)
             THEN <<Entry("Removed component", component)>>
                  \o RemoveLog({kv \in dependencies : kv[1] /= component},
                                components_to_remove, i + 1)
             ELSE RemoveLog(dependencies, components_to_remove, i + 1)

\* an _add_components that sets the version of a name that is present
RECURSIVE add_overwriting(_, _, _)
add_overwriting(dependencies, components_to_add, i) ==
    IF i > Len(components_to_add) THEN dependencies
    ELSE LET component == Strip(components_to_add[i])
             parsed == _parse_component_entry(component)
         IN  IF Len(component) <= 4
             THEN add_overwriting(dependencies, components_to_add, i + 1)
             ELSE add_overwriting(
                      {kv \in dependencies : kv[1] /= parsed[1]}
                          \cup {<<parsed[1], [version |-> parsed[2], scalar |-> FALSE]>>},
                      components_to_add, i + 1)

\* ComponentManager._add_components
RECURSIVE _add_components(_, _, _)
_add_components(dependencies, components_to_add, i) ==
    IF i > Len(components_to_add) THEN dependencies
    ELSE LET component == Strip(components_to_add[i])
             parsed == _parse_component_entry(component)
         IN  IF Len(component) <= 4 \/ HasKey(dependencies, parsed[1])
             THEN _add_components(dependencies, components_to_add, i + 1)
             ELSE _add_components(
                      dependencies \cup {<<parsed[1], [version |-> parsed[2], scalar |-> FALSE]>>},
                      components_to_add, i + 1)

\* the entries _add_components appends to the change log
RECURSIVE AddLog(_, _, _)
AddLog(dependencies, components_to_add, i) ==
    IF i > Len(components_to_add) THEN <<>>
    ELSE LET component == Strip(components_to_add[i])
             parsed == _parse_component_entry(component)
         IN  IF Len(component) <= 4 \/ HasKey(dependencies, parsed[1])
             THEN AddLog(dependencies, components_to_add, i + 1)
             ELSE <<Entry("Added component", parsed[1])>>
                  \o AddLog(dependencies \cup {<<parsed[1], [version |-> parsed[2],
                                                             scalar |-> FALSE]>>},
                             components_to_add, i + 1)

\* ComponentManager._cleanup_removed_components: the entries
\* _remove_include_directory appends for the directories it removes
RemoveDirLog(corder, dirs) ==
    LET IsDir(component) == component \in dirs
        Removed(component) == Entry("Removed include directory", component)
        found == SelectSeq(corder, IsDir)
    IN  [i \in 1..Len(found) |-> Removed(found[i])]

\* the entries handle_lib_ignore gets from _get_lib_ignore_entries
LibIgnoreEntries(lcache, e) ==
    _get_lib_ignore_entries(e.lib_ignore, LoadedLibraries(lcache, e)[1])

\* ignored_libs after  self.ignored_libs.update(lib_ignore_entries)
IgnoredAfter(ignored, lcache, e) == ignored \cup Range(LibIgnoreEntries(lcache, e))

\* ComponentManager.handle_lib_ignore; order: the iteration order of the
\* updated ignored_libs
handle_lib_ignore(build_py, backup_file, ignored, pcache, lcache, e, order) ==
    LET b == IF ignored = {}
             THEN backup_pioarduino_build_py(e.PIOFRAMEWORK, build_py, backup_file)
             ELSE [backup |-> backup_file, copied |-> FALSE]
        lib_ignore_entries == LibIgnoreEntries(lcache, e)
        r == IF lib_ignore_entries /= <<>>
             THEN remove_ignored_lib_includes(build_py, order, pcache, e, FALSE)
             ELSE [recipe |-> build_py, cache |-> pcache, log |-> <<>>, raised |-> FALSE]
    IN  [recipe |-> r.recipe, backup |-> b.backup, copied |-> b.copied,
         ignored_libs |-> IgnoredAfter(ignored, lcache, e),
         project_components_cache |-> r.cache,
         arduino_libraries_cache |->
             IF \E i \in 1..Len(e.lib_ignore) : Strip(e.lib_ignore[i]) /= ""
             THEN LoadedLibraries(lcache, e) ELSE lcache,
         log |-> BackupLog(b.copied) \o r.log
                 \o (IF lib_ignore_entries /= <<>> /\ ~r.raised
                     THEN <<Entry("Processed ignored libraries", "")>> ELSE <<>>),
         raised |-> r.raised]

(***************************************************************************)
(* Inputs of the model                                                     *)
(***************************************************************************)
\* the longest recipe file BuildFileManager is exercised on, in lines
MaxLines == 3

L_text == <<Text>>
L_bt == <<Join(<<"include", "bt", "include", "esp32", "include">>, TRUE)>>
L_mqtt == <<Join(<<"include", "mqtt">>, TRUE)>>
L_foo == <<Path("a/foo/b", TRUE)>>
L_comma == <<Comma>>
L_close == <<Close(TRUE)>>

LineKinds == {L_text, L_mqtt, L_foo, L_comma, L_close}

RECURSIVE SeqsUpTo(_, _)
SeqsUpTo(S, n) ==
    IF n = 0 THEN {<<>>}
    ELSE LET shorter == SeqsUpTo(S, n - 1)
         IN  shorter \cup {Append(q, x) : q \in {t \in shorter : Len(t) = n - 1}, x \in S}

BluetoothSketch == [name |-> "main.cpp", content |-> "#include <BluetoothSerial.h>"]

NoOptions ==
    [PIOFRAMEWORK |-> "arduino", lib_ignore |-> <<>>, custom_component_remove |-> "",
     custom_component_add |-> "", lib_deps |-> <<>>, sources |-> {}, libraries |-> <<>>]

IgnoredSets == {{"mqtt"}, {"foo"}}
RemovedSets == {{"mqtt"}}

\* history of the run: how often the backup file was created (in all, and
\* since the last restore; both counted up to 2) and the last call: its
\* name, the order it went through its set in, whether it found a backup
\* file, for a restore or a load the call it followed, the arguments of the call, and
\* whether the file access of the call failed
NoCopies == [total |-> 0, since |-> 0]
Count(n, copied) == IF copied /\ n < 2 THEN n + 1 ELSE n
Copied(c, copied) == [total |-> Count(c.total, copied), since |-> Count(c.since, copied)]
Called(op, order) ==
    [op |-> op, order |-> order, had |-> backup /= None, prev |-> "-", args |-> <<>>,
     failed |-> FALSE]
Outcome(ret, raised, log) == [ret |-> ret, raised |-> raised, log |-> log]
NoOutcome == Outcome(PyNone, FALSE, <<>>)

\* no manifest has been saved; and the manifests saved so far after
\* handle_component_settings saves the manifest at path, which held file
NoSaves == [framework |-> <<>>, project |-> <<>>]
FirstSave(saves, path, file, fails) ==
    IF fails \/ saves[path] /= <<>> THEN saves ELSE [saves EXCEPT ![path] = <<file>>]

\* _PATH_SHORTENING_MESSAGES as arduino.py defines it
NoMessages ==
    [shortening_applied |-> FALSE, no_framework_paths_warning |-> FALSE,
     long_path_warning_shown |-> FALSE]
NoPrints == [long_path |-> 0, applied |-> 0, no_framework |-> 0]

\* one session on its own, and no thread compiling
Alone ==
    /\ disk = <<>> /\ sessions = <<>>
    /\ lock = 0 /\ messages = NoMessages /\ threads = <<>> /\ printed = NoPrints

(***************************************************************************)
(* BuildFileManager called directly                                        *)
(***************************************************************************)
InitBFM ==
    /\ env \in {[NoOptions EXCEPT !.PIOFRAMEWORK = fw] : fw \in {"arduino", "espidf"}}
    /\ recipe \in {None} \cup {Some(File(l, TRUE)) : l \in SeqsUpTo(LineKinds, MaxLines)}
    /\ backup = None
    /\ framework_yml = None /\ project_yml = None
    /\ framework_yml_orig = None /\ project_yml_orig = None
    /\ include_dirs = {}
    /\ removed_components = {} /\ ignored_libs = {}
    /\ project_components_cache = None /\ arduino_libraries_cache = None
    /\ start = recipe
    /\ last = [op |-> "init", order |-> <<>>, had |-> FALSE, prev |-> "-", args |-> <<>>,
               failed |-> FALSE]
    /\ copies = NoCopies
    /\ outcome = NoOutcome
    /\ presave = NoSaves
    /\ Alone

Backup ==
    \E b \in {backup_pioarduino_build_py(env.PIOFRAMEWORK, recipe, backup)} :
        /\ backup' = b.backup
        /\ copies' = Copied(copies, b.copied)
        /\ last' = Called("backup", <<>>)
        /\ outcome' = Outcome(PyNone, FALSE, BackupLog(b.copied))
        /\ UNCHANGED <<env, recipe, framework_yml, project_yml, framework_yml_orig,
                       project_yml_orig, include_dirs, manager, start,
                       presave, parallel>>

\* BuildFileManager.restore_pioarduino_build_py, which
\* ComponentManager.restore_pioarduino_build_py delegates to
Restore ==
    \E r \in {restore_pioarduino_build_py(recipe, backup)} :
        /\ recipe' = r.recipe
        /\ backup' = r.backup
        /\ copies' = [copies EXCEPT !.since = 0]
        /\ last' = [Called("restore", <<>>) EXCEPT !.prev = last.op]
        /\ outcome' = Outcome(PyNone, FALSE, RestoreLog(backup))
        /\ UNCHANGED <<env, framework_yml, project_yml, framework_yml_orig,
                       project_yml_orig, include_dirs, manager, start,
                       presave, parallel>>

RemoveIgnoredLibIncludes ==
    \E libs \in IgnoredSets : \E order \in Orders(libs) : \E fails \in BOOLEAN :
    \E r \in {remove_ignored_lib_includes(recipe, order, project_components_cache, env,
                                           fails)} :
        /\ recipe' = r.recipe
        /\ project_components_cache' = r.cache
        /\ last' = [Called("remove_ignored_lib_includes", order) EXCEPT !.failed = fails]
        /\ outcome' = Outcome(PyNone, r.raised, r.log)
        /\ UNCHANGED <<env, backup, framework_yml, project_yml, framework_yml_orig,
                       project_yml_orig, include_dirs, removed_components,
                       ignored_libs, arduino_libraries_cache, start, copies,
                       presave, parallel>>

RemoveCpppathEntries ==
    \E components \in RemovedSets : \E order \in Orders(components) :
    \E cleaned \in {remove_cpppath_entries(recipe, order)} :
        /\ recipe' = cleaned
        /\ last' = Called("remove_cpppath_entries", order)
        /\ outcome' = Outcome(PyNone, FALSE, CpppathLog(recipe, cleaned))
        /\ UNCHANGED <<env, backup, framework_yml, project_yml, framework_yml_orig,
                       project_yml_orig, include_dirs, manager, start, copies,
                       presave, parallel>>

NextBFM == Backup \/ Restore \/ RemoveIgnoredLibIncludes \/ RemoveCpppathEntries

SpecBFM == InitBFM /\ [][NextBFM]_vars

(***************************************************************************)
(* A session of ComponentManager: the manager is constructed for an        *)
(* Arduino project, then handle_component_settings, handle_lib_ignore and  *)
(* restore_pioarduino_build_py are called in any order.                    *)
(***************************************************************************)
LibIgnoreOptions ==
    {<<>>, <<"esp32", "mqtt">>, <<"esp_timer", "esp_camera">>, 
     <<" ", "liblwip", "WiFi", "BluetoothSerial">>}
RemoveOptions == {"", "mqtt\n\n foo "}
AddOptions == {"", "esp_camera@1.2.0\nabcd\nmqtt"}

CoreLibraries == <<[entry |-> "WiFi", name |-> "WiFi"]>>

\* the projects: their options, with a sketch that uses Bluetooth
Projects ==
    {[NoOptions EXCEPT !.lib_ignore = li, !.custom_component_remove = rm,
                       !.custom_component_add = ad, !.sources = {BluetoothSketch},
                       !.libraries = CoreLibraries] :
        li \in LibIgnoreOptions, rm \in RemoveOptions, ad \in AddOptions}

Manifest ==
    [dependencies |-> {<<"idf", [version |-> ">=5.1", scalar |-> TRUE]>>,
                       <<"mqtt", [version |-> "*", scalar |-> FALSE]>>,
                       <<"foo", [version |-> "1.0", scalar |-> TRUE]>>}]

\* the installations: the recipe file, the framework's manifest and the
\* project's manifest (one of them a manifest that has no dependencies)
Installations ==
    {<<Some(File(<<L_text, L_bt, L_mqtt, L_foo>>, TRUE)),
       Some(yaml_dump(Dict(Manifest))), None>>,
     <<Some(File(<<L_text, L_mqtt, L_mqtt>>, TRUE)),
       None, Some(yaml_dump(Dict(Manifest)))>>,
     <<Some(File(<<L_text, L_comma, L_close>>, TRUE)), None, None>>,
     <<Some(File(<<L_mqtt, L_foo>>, TRUE)),
       None, Some(<<PairLine("version", "1.0.0")>>)>>,
     <<None, None, None>>}

\* ComponentManager.__init__
Init ==
    /\ env \in Projects
    /\ \E i \in Installations :
           recipe = i[1] /\ framework_yml = i[2] /\ project_yml = i[3]
    /\ backup = None
    /\ framework_yml_orig = None /\ project_yml_orig = None
    /\ include_dirs = {"mqtt", "bt"}
    /\ removed_components = {} /\ ignored_libs = {}
    /\ project_components_cache = None /\ arduino_libraries_cache = None
    /\ start = recipe
    /\ last = [op |-> "init", order |-> <<>>, had |-> FALSE, prev |-> "-", args |-> <<>>,
               failed |-> FALSE]
    /\ copies = NoCopies
    /\ outcome = NoOutcome
    /\ presave = NoSaves
    /\ Alone

\* handle_component_settings, the backup at its start: the backup file after
\* it, whether shutil.copy2 ran, and the entries appended to the change log
BackupFirst(add_components, remove_components) ==
    IF (remove_components /\ removed_components = {}) \/ add_components
    THEN LET b == backup_pioarduino_build_py(env.PIOFRAMEWORK, recipe, backup)
         IN  [backup |-> b.backup, copied |-> b.copied,
              log |-> BackupLog(b.copied) \o <<Entry("Created backup of build file", "")>>]
    ELSE [backup |-> backup, copied |-> FALSE, log |-> <<>>]

\* handle_component_settings, the block  if remove_components: the manifest
\* data and removed_components after it, and the entries appended
RemoveRequested(component_data, remove_components) ==
    IF ~(remove_components /\ env.custom_component_remove /= "")
    THEN [data |-> component_data, removed_components |-> removed_components,
          log |-> <<>>]
    ELSE IF component_data.type /= "dict"
    THEN [data |-> component_data, removed_components |-> removed_components,
          log |-> <<Entry("Error removing components", "")>>]
    ELSE LET m == setdefault(component_data.v)
             components_to_remove == SplitLines(env.custom_component_remove)
             rm == _remove_components(m.dependencies, components_to_remove, 1,
                                      removed_components)
         IN  [data |-> Dict([m EXCEPT !.dependencies = rm.dependencies]),
              removed_components |-> rm.removed_components,
              log |-> RemoveLog(m.dependencies, components_to_remove, 1)]

\* handle_component_settings, the block  if add_components: the manifest data
\* after it, and the entries appended
AddRequested(component_data, add_components) ==
    IF ~(add_components /\ env.custom_component_add /= "")
    THEN [data |-> component_data, log |-> <<>>]
    ELSE IF component_data.type /= "dict"
    THEN [data |-> component_data, log |-> <<Entry("Error adding components", "")>>]
    ELSE LET m == setdefault(component_data.v)
             components_to_add == SplitLines(env.custom_component_add)
         IN  [data |-> Dict([m EXCEPT !.dependencies =
                                _add_components(m.dependencies, components_to_add, 1)]),
              log |-> AddLog(m.dependencies, components_to_add, 1)]

\* ComponentManager._cleanup_removed_components, called when
\* removed_components is not empty: the recipe file and the include
\* directories after it, and the entries appended; corder is the iteration
\* order of removed_components
_cleanup_removed_components(corder) ==
    IF corder = <<>>
    THEN [recipe |-> recipe, include_dirs |-> include_dirs, log |-> <<>>]
    ELSE LET cleaned == remove_cpppath_entries(recipe, corder)
         IN  [recipe |-> cleaned,
              include_dirs |-> include_dirs \ Range(corder),
              log |-> RemoveDirLog(corder, include_dirs) \o CpppathLog(recipe, cleaned)]

\* ComponentManager.handle_component_settings, with handle_lib_ignore at its
\* end.  corder and order are the iteration orders of removed_components and
\* of ignored_libs; fails says that opening the manifest for writing raises
Settings(add_components, remove_components) ==
    \E b \in {BackupFirst(add_components, remove_components)} :
    \E y \in {get_or_create_component_yml(framework_yml, project_yml,
                                           framework_yml_orig, project_yml_orig)} :
    \E file \in {IF y.path = "framework" THEN y.framework_yml ELSE y.project_yml} :
    \E component_data \in {load_component_yml(file)} :
    \E rm \in {RemoveRequested(component_data, remove_components)} :
    \E ad \in {AddRequested(rm.data, add_components)} :
    \E corder \in Orders(rm.removed_components) :
    \E c \in {_cleanup_removed_components(corder)} :
    \E order \in Orders(IgnoredAfter(ignored_libs, arduino_libraries_cache, env)) :
    \E h \in {handle_lib_ignore(c.recipe, b.backup, ignored_libs,
                                 project_components_cache, arduino_libraries_cache,
                                 env, order)} :
    \E fails \in BOOLEAN :
    \E saved \in {save_component_yml(file, y.path, ad.data, fails)} :
        \* an exception of save_component_yml ends the call
        /\ framework_yml' = IF y.path = "framework" THEN saved.file ELSE y.framework_yml
        /\ project_yml' = IF y.path = "project" THEN saved.file ELSE y.project_yml
        /\ framework_yml_orig' = y.framework_yml_orig
        /\ project_yml_orig' = y.project_yml_orig
        /\ removed_components' = rm.removed_components
        /\ IF saved.raised
           THEN /\ backup' = b.backup
                /\ copies' = Copied(copies, b.copied)
                /\ UNCHANGED <<recipe, include_dirs, ignored_libs,
                               project_components_cache, arduino_libraries_cache>>
                /\ outcome' = Outcome(PyNone, TRUE,
                                      b.log \o y.log \o rm.log \o ad.log \o saved.log)
           ELSE /\ recipe' = h.recipe
                /\ backup' = h.backup
                /\ copies' = Copied(Copied(copies, b.copied), h.copied)
                /\ include_dirs' = c.include_dirs
                /\ ignored_libs' = h.ignored_libs
                /\ project_components_cache' = h.project_components_cache
                /\ arduino_libraries_cache' = h.arduino_libraries_cache
                /\ outcome' = Outcome(PyNone, h.raised,
                                      b.log \o y.log \o rm.log \o ad.log \o saved.log
                                      \o c.log \o h.log
                                      \o (IF h.raised THEN <<>>
                                          ELSE <<Entry("Session completed", "")>>))
        /\ last' = [Called("handle_component_settings", <<>>) EXCEPT
                       !.args = <<add_components, remove_components>>, !.failed = fails]
        /\ presave' = FirstSave(presave, y.path, file, fails)
        /\ UNCHANGED <<env, start, parallel>>

\* handle_component_settings called with any arguments
HandleComponentSettings ==
    \E add_components, remove_components \in BOOLEAN :
        Settings(add_components, remove_components)

\* ComponentManager.handle_lib_ignore called on its own
HandleLibIgnore ==
    \E order \in Orders(IgnoredAfter(ignored_libs, arduino_libraries_cache, env)) :
    \E h \in {handle_lib_ignore(recipe, backup, ignored_libs, project_components_cache,
                                arduino_libraries_cache, env, order)} :
        /\ recipe' = h.recipe
        /\ backup' = h.backup
        /\ ignored_libs' = h.ignored_libs
        /\ project_components_cache' = h.project_components_cache
        /\ arduino_libraries_cache' = h.arduino_libraries_cache
        /\ copies' = Copied(copies, h.copied)
        /\ last' = Called("handle_lib_ignore", <<>>)
        /\ outcome' = Outcome(PyNone, h.raised, h.log)
        /\ UNCHANGED <<env, framework_yml, project_yml, framework_yml_orig,
                       project_yml_orig, include_dirs, removed_components, start,
                       presave, parallel>>

Next == HandleComponentSettings \/ HandleLibIgnore \/ Restore

Spec == Init /\ [][Next]_vars

(***************************************************************************)
(* One build: the build script arduino.py runs once for the project; when  *)
(* it constructs the ComponentManager it registers                         *)
(* restore_pioarduino_build_py as the action after "checkprogsize".        *)
(* ARDUINO_LIB_COMPILE_FLAG is "Inactive", and an option of the project's  *)
(* environment section is either missing or has a value.                   *)
(***************************************************************************)
\* config.has_option(current_env_section, option)
has_option(e, option) == e[option] /= NoOptions[option]

\* arduino.py, the flags and the main logic for the Arduino framework
BuildScript ==
    /\ last.op = "init"
    /\ \E flag_lib_ignore \in {has_option(env, "lib_ignore")} :
       \E flag_custom_component_remove \in {has_option(env, "custom_component_remove")} :
       \E flag_custom_component_add \in {FALSE} :
           IF /\ Contains(env.PIOFRAMEWORK, "arduino")
              /\ ~Contains(env.PIOFRAMEWORK, "espidf")
              /\ (flag_custom_component_remove \/ flag_lib_ignore)
           THEN \E flag_remove \in {TRUE} :
                    Settings(flag_custom_component_add, flag_remove)
           ELSE /\ last' = Called("arduino.py", <<>>)
                /\ UNCHANGED <<env, files, manager, start, copies, outcome,
                              presave, parallel>>

\* the action registered after "checkprogsize"
PostAction ==
    /\ last.op = "handle_component_settings"
    /\ Restore

NextScript == BuildScript \/ PostAction

SpecScript == Init /\ [][NextScript]_vars

(***************************************************************************)
(* The methods of ComponentYamlHandler, ComponentManager._add_components   *)
(* and ProjectAnalyzer.is_component_used_in_project called directly, on    *)
(* the manifest of the project and on the project's sources and lib_deps.  *)
(***************************************************************************)
\* the longest add entry, in characters, and the characters it is made of
MaxEntry == 6
EntryChars == {"e", "@", " "}

RECURSIVE StringsUpTo(_, _)
StringsUpTo(S, n) ==
    IF n = 0 THEN {""}
    ELSE LET shorter == StringsUpTo(S, n - 1)
         IN  shorter \cup {q \o x : q \in {t \in shorter : Len(t) = n - 1}, x \in S}

\* the lists of add entries: every short string, and the entries of the
\* documentation
AddLists ==
    {<<entry>> : entry \in StringsUpTo(EntryChars, MaxEntry)}
    \cup {<<"esp_camera@1.2.0", "esp_dsp">>, <<"abcd", " esp_dsp @ 1.0 ">>,
          <<"mqtt_client@2.0", "mqtt_client@3.0">>}

\* the manifests handed to save_component_yml and to _add_components
Manifests ==
    {Dict(<<>>), Dict([dependencies |-> {}]), Dict(Manifest), Dict([version |-> "1.0.0"]),
     Dict([version |-> "1.0.0", dependencies |->
              {<<"mqtt_client", [version |-> "1.0", scalar |-> FALSE]>>,
               <<"eeeee", [version |-> "0.1", scalar |-> TRUE]>>}])}

\* the manifest files: missing, not decodable, not YAML, empty, the documents
\* {} and [], a list, a mapping without dependencies, a mapping that names a
\* key twice, and what yaml.dump writes for the manifests
Documents ==
    {None, Some(<<Undecodable>>), Some(<<JunkLine>>),
     Some(<<PairLine("version", "1.0.0"), JunkLine>>), Some(<<>>),
     Some(<<FlowLine("{}")>>), Some(<<FlowLine("[]")>>), Some(<<FlowLine("null")>>),
     Some(<<ItemLine("mqtt"), ItemLine("foo")>>), Some(<<PairLine("version", "1.0.0")>>),
     Some(<<PairLine("version", "1.0.0"), PairLine("dependencies", {}),
            PairLine("version", "2.0.0")>>)}
    \cup {Some(yaml_dump(data)) : data \in Manifests}

UnitSources ==
    {{}, {[name |-> "main.cpp", content |-> "#include <WiFi.h>"]},
     {[name |-> "net.c", content |-> "mode = WIFI_MODE_STA;"]},
     {[name |-> "notes.txt", content |-> "wifi"]},
     {BluetoothSketch,
      [name |-> "app.ino", content |-> "mqtt json ssl timer_ gpio_ esp_now ethernet"]},
     {[name |-> "a.h", content |-> "tcpip_adapter_init();"],
      [name |-> "b.hpp", content |-> "#include <esp_http_client.h>"]}}

UnitLibDeps ==
    {<<>>, <<"WiFi">>, <<"me-no-dev/AsyncTCP">>,
     <<"knolleary/PubSubClient", "h2zero/NimBLE-Arduino", "esp32-camera">>}

UnitNames == {"esp_wifi", "ESP_WIFI", "mqtt"}

InitUnits ==
    /\ env \in {[NoOptions EXCEPT !.sources = s, !.lib_deps = d] :
                   s \in UnitSources, d \in UnitLibDeps}
    /\ project_yml \in Documents
    /\ recipe = None /\ backup = None
    /\ framework_yml = None
    /\ framework_yml_orig = None /\ project_yml_orig = None
    /\ include_dirs = {}
    /\ removed_components = {} /\ ignored_libs = {}
    /\ project_components_cache = None /\ arduino_libraries_cache = None
    /\ start = recipe
    /\ last = [op |-> "init", order |-> <<>>, had |-> FALSE, prev |-> "-", args |-> <<>>,
               failed |-> FALSE]
    /\ copies = NoCopies
    /\ outcome = NoOutcome
    /\ presave = NoSaves
    /\ Alone

\* ComponentYamlHandler.load_component_yml(<src>/idf_component.yml)
Load ==
    \E data \in {load_component_yml(project_yml)} :
        /\ outcome' = Outcome(data, data = Raised, <<>>)
        /\ last' = [Called("load_component_yml", <<>>) EXCEPT !.prev = last.op]
        /\ UNCHANGED <<env, files, manager, start, copies,
                       presave, parallel>>

\* ComponentYamlHandler.save_component_yml(<src>/idf_component.yml, data);
\* fails says that opening the file for writing raises
Save ==
    \E data \in Manifests : \E fails \in BOOLEAN :
    \E saved \in {save_component_yml(project_yml, "project", data, fails)} :
        /\ project_yml' = saved.file
        /\ outcome' = Outcome(PyNone, saved.raised, saved.log)
        /\ last' = [Called("save_component_yml", <<>>) EXCEPT
                       !.args = <<data>>, !.failed = fails]
        /\ UNCHANGED <<env, recipe, backup, framework_yml, framework_yml_orig,
                       project_yml_orig, include_dirs, manager, start, copies,
                       presave, parallel>>

\* ProjectAnalyzer.is_component_used_in_project: the value returned and the
\* cache after the call
is_component_used_in_project(lib_name, cache, e) ==
    LET loaded == LoadedAnalysis(cache, e)
    IN  [ret |-> IsUsed(lib_name, loaded[1]), cache |-> loaded]

IsComponentUsed ==
    \E lib_name \in UnitNames :
    \E r \in {is_component_used_in_project(lib_name, project_components_cache, env)} :
        /\ project_components_cache' = r.cache
        /\ outcome' = Outcome(r.ret, FALSE, <<>>)
        /\ last' = [Called("is_component_used_in_project", <<>>) EXCEPT
                       !.args = <<lib_name>>]
        /\ UNCHANGED <<env, files, removed_components, ignored_libs,
                       arduino_libraries_cache, start, copies,
                       presave, parallel>>

NextUnits == Load \/ Save \/ IsComponentUsed

SpecUnits == InitUnits /\ [][NextUnits]_vars

\* _add_components alone: the arguments of the call are drawn when the run
\* starts, every manifest with every list of add entries
InitAdd ==
    /\ env = NoOptions
    /\ recipe = None /\ backup = None
    /\ framework_yml = None /\ project_yml = None
    /\ framework_yml_orig = None /\ project_yml_orig = None
    /\ include_dirs = {}
    /\ removed_components = {} /\ ignored_libs = {}
    /\ project_components_cache = None /\ arduino_libraries_cache = None
    /\ start = recipe
    /\ last \in {[op |-> "init", order |-> <<>>, had |-> FALSE, prev |-> "-",
                   args |-> <<component_data, components_to_add>>, failed |-> FALSE] :
                     component_data \in Manifests, components_to_add \in AddLists}
    /\ copies = NoCopies
    /\ outcome = NoOutcome
    /\ presave = NoSaves
    /\ Alone

\* ComponentManager._add_components(component_data, components_to_add): the
\* call returns nothing and changes component_data, here given as its result
AddComponents ==
    \E component_data \in {last.args[1]} : \E components_to_add \in {last.args[2]} :
    \E m \in {setdefault(component_data.v)} :
        /\ outcome' = Outcome(Dict([m EXCEPT !.dependencies =
                                       _add_components(@, components_to_add, 1)]),
                              FALSE, AddLog(m.dependencies, components_to_add, 1))
        /\ last' = [Called("_add_components", <<>>) EXCEPT !.args = last.args]
        /\ UNCHANGED <<env, files, manager, start, copies,
                       presave, parallel>>

SpecAdd == InitAdd /\ [][AddComponents]_vars

(***************************************************************************)
(* LibraryMapper.convert_lib_name_to_include and                           *)
(* ProjectAnalyzer.is_component_used_in_project called any number of times *)
(* on one mapper and one analyzer, while the project's files and lib_deps  *)
(* are edited between the calls.                                           *)
(***************************************************************************)
\* the listings of <framework>/libraries: no such directory, the WiFi library,
\* a directory without library.properties, and a library that is installed
\* under the name of another one
LibraryListings ==
    {<<>>, CoreLibraries, <<[entry |-> "WiFi", name |-> ""]>>,
     <<[entry |-> "BluetoothSerial", name |-> "Ethernet"],
       [entry |-> "some_unknown_xyz", name |-> "WiFi Manager"]>>}

LookupNames == {"BluetoothSerial", "WiFi", "some_unknown_xyz", "libFoo-library"}

LookupSources ==
    {{}, {[name |-> "main.cpp", content |-> "#include <WiFi.h>"]}, {BluetoothSketch}}

LookupLibDeps == {<<>>, <<"knolleary/PubSubClient">>}

InitLookup ==
    /\ env \in {[NoOptions EXCEPT !.sources = s, !.lib_deps = d, !.libraries = l] :
                   s \in LookupSources, d \in LookupLibDeps, l \in LibraryListings}
    /\ recipe = None /\ backup = None
    /\ framework_yml = None /\ project_yml = None
    /\ framework_yml_orig = None /\ project_yml_orig = None
    /\ include_dirs = {}
    /\ removed_components = {} /\ ignored_libs = {}
    /\ project_components_cache = None /\ arduino_libraries_cache = None
    /\ start = recipe
    /\ last = [op |-> "init", order |-> <<>>, had |-> FALSE, prev |-> "-", args |-> <<>>,
               failed |-> FALSE]
    /\ copies = NoCopies
    /\ outcome = NoOutcome
    /\ presave = NoSaves
    /\ Alone

\* LibraryMapper.convert_lib_name_to_include(lib_name): the cache is filled on
\* the first call
ConvertLibName ==
    \E lib_name \in LookupNames :
    \E loaded \in {LoadedLibraries(arduino_libraries_cache, env)} :
        /\ arduino_libraries_cache' = loaded
        /\ outcome' = Outcome(convert_lib_name_to_include(lib_name, loaded[1]), FALSE, <<>>)
        /\ last' = [Called("convert_lib_name_to_include", <<>>) EXCEPT
                       !.args = <<lib_name>>]
        /\ UNCHANGED <<env, files, removed_components, ignored_libs,
                       project_components_cache, start, copies,
                       presave, parallel>>

\* the user edits the sources of the project or the lib_deps option
EditProject ==
    \E s \in LookupSources : \E d \in LookupLibDeps :
        /\ <<s, d>> /= <<env.sources, env.lib_deps>>
        /\ env' = [env EXCEPT !.sources = s, !.lib_deps = d]
        /\ last' = [Called("edit", <<>>) EXCEPT !.prev = last.op]
        /\ UNCHANGED <<files, manager, start, copies, outcome,
                       presave, parallel>>

NextLookup == ConvertLibName \/ IsComponentUsed \/ EditProject

SpecLookup == InitLookup /\ [][NextLookup]_vars

(***************************************************************************)
(* ComponentYamlHandler.get_or_create_component_yml and save_component_yml *)
(* called directly, with a manifest in the framework directory, in the     *)
(* project's source directory, in both or in neither, and with .orig files *)
(* left by an earlier build.                                               *)
(***************************************************************************)
\* the content of an .orig file of an earlier build
EarlierManifest ==
    Some(yaml_dump(Dict([dependencies |->
        {<<"idf", [version |-> ">=4.4", scalar |-> TRUE]>>}])))

InitManifest ==
    /\ env = NoOptions
    /\ recipe = None /\ backup = None
    /\ framework_yml \in {None, Some(yaml_dump(Dict(Manifest)))}
    /\ project_yml \in {None, Some(yaml_dump(Dict(Manifest))),
                        Some(<<PairLine("version", "1.0.0")>>)}
    /\ framework_yml_orig \in {None, EarlierManifest}
    /\ project_yml_orig \in {None, EarlierManifest}
    /\ include_dirs = {}
    /\ removed_components = {} /\ ignored_libs = {}
    /\ project_components_cache = None /\ arduino_libraries_cache = None
    /\ start = recipe
    /\ last = [op |-> "init", order |-> <<>>, had |-> FALSE, prev |-> "-", args |-> <<>>,
               failed |-> FALSE]
    /\ copies = NoCopies
    /\ outcome = NoOutcome
    /\ presave = NoSaves
    /\ Alone

\* ComponentYamlHandler.get_or_create_component_yml(<framework>, <src>)
GetOrCreate ==
    \E y \in {get_or_create_component_yml(framework_yml, project_yml,
                                           framework_yml_orig, project_yml_orig)} :
        /\ framework_yml' = y.framework_yml
        /\ project_yml' = y.project_yml
        /\ framework_yml_orig' = y.framework_yml_orig
        /\ project_yml_orig' = y.project_yml_orig
        /\ outcome' = Outcome(y.path, FALSE, y.log)
        /\ last' = Called("get_or_create_component_yml", <<>>)
        /\ UNCHANGED <<env, recipe, backup, include_dirs, manager, start, copies,
                       presave, parallel>>

NextManifest == GetOrCreate \/ Save

SpecManifest == InitManifest /\ [][NextManifest]_vars

(***************************************************************************)
(* Two builds at the same time: each constructs its ComponentManager for   *)
(* its MCU target, calls handle_lib_ignore (backup of the recipe file, then *)
(* remove_ignored_lib_includes) and, after "checkprogsize",                *)
(* restore_pioarduino_build_py.  A step is one access to a file: a test    *)
(* for existence, a read, a write or a removal.                            *)
(***************************************************************************)
\* the variables of the single session, which these builds do not use
single == <<env, files, manager, start, last, copies, outcome, presave>>
Unused ==
    /\ env = NoOptions
    /\ recipe = None /\ backup = None
    /\ framework_yml = None /\ project_yml = None
    /\ framework_yml_orig = None /\ project_yml_orig = None
    /\ include_dirs = {}
    /\ removed_components = {} /\ ignored_libs = {}
    /\ project_components_cache = None /\ arduino_libraries_cache = None
    /\ start = recipe
    /\ last = [op |-> "init", order |-> <<>>, had |-> FALSE, prev |-> "-", args |-> <<>>,
               failed |-> FALSE]
    /\ copies = NoCopies
    /\ outcome = NoOutcome
    /\ presave = NoSaves

\* ComponentManager.__init__: join(<libs>, self.mcu)
arduino_libs_mcu(mcu) == "libs/" \o mcu

\* BuildFileManager: build_py_path
build_py_path(mcu) == arduino_libs_mcu(mcu) \o "/pioarduino-build.py"

\* one backup file for all targets
backup_shared(mcu) == "libs/pioarduino-build.py.bak"

\* BuildFileManager: backup_path
backup_path(mcu) == arduino_libs_mcu(mcu) \o "/pioarduino-build.py." \o mcu

\* os.remove that leaves the file
remove_nothing(d, path) == d

\* os.remove(path) of a file that exists: the files after it
os_remove(d, path) == [d EXCEPT ![path] = None]

Targets == {"esp32", "esp32s3"}
RacePaths ==
    {build_py_path(mcu) : mcu \in Targets} \cup {backup_path(mcu) : mcu \in Targets}
RaceRecipe == File(<<L_text, L_mqtt, L_foo, L_text>>, TRUE)

\* a session before its first step: its target, the libraries it ignores
\* (none of them used by its project), the content it has read last and the
\* paths it has accessed
Session(mcu, libs) ==
    [mcu |-> mcu, libs |-> libs, pc |-> "backup", buf |-> None, touched |-> {}]

InitRace ==
    /\ Unused
    /\ disk = [path \in RacePaths |->
                  IF path \in {build_py_path(mcu) : mcu \in Targets}
                  THEN Some(RaceRecipe) ELSE None]
    /\ sessions \in {<<Session("esp32", <<"mqtt">>), Session(mcu, <<"foo">>)>> :
                        mcu \in Targets}
    /\ lock = 0 /\ messages = NoMessages /\ threads = <<>> /\ printed = NoPrints

\* session s goes on at pc, having read buf and accessed path
Moved(s, pc, buf, path) ==
    [sessions EXCEPT ![s] = [@ EXCEPT !.pc = pc, !.buf = buf,
                                      !.touched = @ \cup {path}]]

\* BuildFileManager.backup_pioarduino_build_py, step by step:
\* os.path.exists(build_py_path), os.path.exists(backup_path), and the read
\* and the write of shutil.copy2
BackupStep(s) ==
    \E build \in {build_py_path(sessions[s].mcu)} :
    \E bak \in {backup_path(sessions[s].mcu)} :
        /\ \/ /\ sessions[s].pc = "backup"
              /\ sessions' = Moved(s, IF disk[build] /= None THEN "backup_test"
                                      ELSE "edit", None, build)
              /\ disk' = disk
           \/ /\ sessions[s].pc = "backup_test"
              /\ sessions' = Moved(s, IF disk[bak] = None THEN "backup_copy"
                                      ELSE "edit", None, bak)
              /\ disk' = disk
           \/ /\ sessions[s].pc = "backup_copy"
              /\ sessions' = Moved(s, IF disk[build] /= None THEN "backup_write"
                                      ELSE "raised", disk[build], build)
              /\ disk' = disk
           \/ /\ sessions[s].pc = "backup_write"
              /\ disk' = [disk EXCEPT ![bak] = sessions[s].buf]
              /\ sessions' = Moved(s, "edit", None, bak)
        /\ UNCHANGED <<single, lock, messages, threads, printed>>

\* BuildFileManager.remove_ignored_lib_includes, step by step:
\* os.path.exists(build_py_path), the read, and the write of the validated
\* content; an exception of the read is caught
EditStep(s) ==
    \E build \in {build_py_path(sessions[s].mcu)} :
        /\ \/ /\ sessions[s].pc = "edit"
              /\ sessions' = Moved(s, IF disk[build] /= None THEN "edit_read"
                                      ELSE "restore", None, build)
              /\ disk' = disk
           \/ /\ sessions[s].pc = "edit_read"
              /\ sessions' = Moved(s, IF disk[build] /= None THEN "edit_write"
                                      ELSE "restore", disk[build], build)
              /\ disk' = disk
           \/ /\ sessions[s].pc = "edit_write"
              /\ \E content \in {IgnoredResult(sessions[s].buf[1], sessions[s].libs, {})} :
                    disk' = IF content /= sessions[s].buf[1]
                            THEN [disk EXCEPT ![build] = Some(content)]
                            ELSE disk
              /\ sessions' = Moved(s, "restore", None, build)
        /\ UNCHANGED <<single, lock, messages, threads, printed>>

\* BuildFileManager.restore_pioarduino_build_py, step by step:
\* os.path.exists(backup_path), the read and the write of shutil.copy2, and
\* os.remove(backup_path); copy2 and remove raise when the file is gone
RestoreStep(s) ==
    \E build \in {build_py_path(sessions[s].mcu)} :
    \E bak \in {backup_path(sessions[s].mcu)} :
        /\ \/ /\ sessions[s].pc = "restore"
              /\ sessions' = Moved(s, IF disk[bak] /= None THEN "restore_copy"
                                      ELSE "done", None, bak)
              /\ disk' = disk
           \/ /\ sessions[s].pc = "restore_copy"
              /\ sessions' = Moved(s, IF disk[bak] /= None THEN "restore_write"
                                      ELSE "raised", disk[bak], bak)
              /\ disk' = disk
           \/ /\ sessions[s].pc = "restore_write"
              /\ disk' = [disk EXCEPT ![build] = sessions[s].buf]
              /\ sessions' = Moved(s, "restore_remove", None, build)
           \/ /\ sessions[s].pc = "restore_remove"
              /\ disk' = IF disk[bak] /= None THEN os_remove(disk, bak) ELSE disk
              /\ sessions' = Moved(s, IF disk[bak] /= None THEN "done" ELSE "raised",
                                   None, bak)
        /\ UNCHANGED <<single, lock, messages, threads, printed>>

NextRace == \E s \in DOMAIN sessions : BackupStep(s) \/ EditStep(s) \/ RestoreStep(s)

SpecRace == InitRace /\ [][NextRace]_vars

(***************************************************************************)
(* The one-time console messages of the build script: threads of one       *)
(* process call check_and_warn_long_path_support and                       *)
(* apply_include_shortening, whose bodies run under _PATH_SHORTENING_LOCK.  *)
(* A step is the acquisition of the lock, a test of a flag, the printing,  *)
(* or the assignment of the flag with the release of the lock.             *)
(***************************************************************************)
MaxThreads == 2
MaxCalls == 2

\* a lock that every thread may take at any time
acquire_anyway(l) == TRUE

\* with _PATH_SHORTENING_LOCK: the lock can be taken when no thread holds it
acquire(l) == l = 0

\* a thread between calls: IS_WINDOWS of its process, the calls it has made,
\* and whether the includes of its call hold framework paths
Thread(windows) ==
    [pc |-> "idle", windows |-> windows, calls |-> 0, shortened_includes |-> FALSE]

InitConsole ==
    /\ Unused
    /\ disk = <<>> /\ sessions = <<>>
    /\ lock = 0
    /\ messages = NoMessages
    /\ threads \in {[t \in 1..MaxThreads |-> Thread(windows)] : windows \in BOOLEAN}
    /\ printed = NoPrints

\* thread t goes on at pc
At(t, pc) == [threads EXCEPT ![t].pc = pc]

\* a thread calls one of the two functions; apply_include_shortening has
\* sorted the includes of its call before it takes the lock
CallFunction(t) ==
    /\ threads[t].pc = "idle"
    /\ threads[t].calls < MaxCalls
    /\ \/ threads' = [threads EXCEPT ![t].pc = "check", ![t].calls = @ + 1]
       \/ \E shortened_includes \in BOOLEAN :
             threads' = [threads EXCEPT ![t].pc = "apply", ![t].calls = @ + 1,
                                        ![t].shortened_includes = shortened_includes]
    /\ UNCHANGED <<single, disk, sessions, lock, messages, printed>>

\* check_and_warn_long_path_support, step by step; the registry answers
\* that long paths are enabled, that they are disabled, or with an exception,
\* and printed.long_path counts the runs of the body
check_and_warn_long_path_support(t) ==
    /\ \/ /\ threads[t].pc = "check"
          /\ acquire(lock)
          /\ lock' = t
          /\ threads' = At(t, "check_test")
          /\ UNCHANGED <<messages, printed>>
       \/ /\ threads[t].pc = "check_test"
          /\ IF ~threads[t].windows \/ messages.long_path_warning_shown
             THEN lock' = 0 /\ threads' = At(t, "idle")
             ELSE lock' = lock /\ threads' = At(t, "check_body")
          /\ UNCHANGED <<messages, printed>>
       \/ /\ threads[t].pc = "check_body"
          /\ \E registry \in {"enabled", "disabled", "exception"} :
                printed' = [printed EXCEPT !.long_path = @ + 1]
          /\ threads' = At(t, "check_set")
          /\ UNCHANGED <<lock, messages>>
       \/ /\ threads[t].pc = "check_set"
          /\ messages' = [messages EXCEPT !.long_path_warning_shown = TRUE]
          /\ lock' = 0
          /\ threads' = At(t, "idle")
          /\ UNCHANGED printed
    /\ UNCHANGED <<single, disk, sessions>>

\* apply_include_shortening from its with statement on, step by step
apply_include_shortening(t) ==
    /\ \/ /\ threads[t].pc = "apply"
          /\ acquire(lock)
          /\ lock' = t
          /\ threads' = At(t, "apply_test")
          /\ UNCHANGED <<messages, printed>>
       \/ /\ threads[t].pc = "apply_test"
          /\ IF messages.shortening_applied
             THEN lock' = 0 /\ threads' = At(t, "idle")
             ELSE lock' = lock /\ threads' = At(t, "apply_print")
          /\ UNCHANGED <<messages, printed>>
       \/ /\ threads[t].pc = "apply_print"
          /\ IF threads[t].shortened_includes
             THEN /\ printed' = [printed EXCEPT !.applied = @ + 1]
                  /\ messages' = messages
             ELSE IF ~messages.no_framework_paths_warning
                  THEN /\ printed' = [printed EXCEPT !.no_framework = @ + 1]
                       /\ messages' = [messages EXCEPT !.no_framework_paths_warning = TRUE]
                  ELSE UNCHANGED <<printed, messages>>
          /\ threads' = At(t, "apply_set")
          /\ lock' = lock
       \/ /\ threads[t].pc = "apply_set"
          /\ messages' = [messages EXCEPT !.shortening_applied = TRUE]
          /\ lock' = 0
          /\ threads' = At(t, "idle")
          /\ UNCHANGED printed
    /\ UNCHANGED <<single, disk, sessions>>

NextConsole ==
    \E t \in DOMAIN threads :
        \/ CallFunction(t)
        \/ check_and_warn_long_path_support(t)
        \/ apply_include_shortening(t)

SpecConsole == InitConsole /\ [][NextConsole]_vars

(***************************************************************************)
(* Properties                                                              *)
(***************************************************************************)
Arduino == Contains(env.PIOFRAMEWORK, "arduino")

\* C1: with no backup file and the Arduino framework, a backup leaves the
\* recipe file as it is, and a restore that follows it directly leaves the
\* recipe file with the content it had before the backup and removes the
\* backup file
C1_RoundTrip ==
    [][/\ (last'.op = "backup" /\ backup = None /\ Arduino) => recipe' = recipe
       /\ (last.op = "backup" /\ ~last.had /\ Arduino /\ last'.op = "restore")
              => (recipe' = recipe /\ backup' = None)]_vars

\* a restore directly after the backup that created the only backup file of
\* the run
C1_Witness ==
    /\ Arduino /\ start /= None
    /\ last.op = "restore" /\ last.prev = "backup" /\ last.had
    /\ copies.total = 1
    /\ recipe = start /\ backup = None

\* C2: every restore of a session leaves the recipe file with the content it
\* had when the session started
C2_RestoreUndoesAll == [][last'.op = "restore" => recipe' = start]_vars

\* C3: in a session, a recipe file that differs from its content at session
\* start has a backup file, which holds the content at session start
C3_BackupBeforeEdit == recipe /= start => (backup /= None /\ backup = start)

\* C4: a backup call made while a backup file exists leaves the backup file
\* as it is
C4_BackupKept == [][(last'.op = "backup" /\ backup /= None) => backup' = backup]_vars

\* the last call was a backup, it found a backup file, and the recipe file had
\* been edited since that backup file was written
C4_Witness ==
    /\ last.op = "backup" /\ last.had
    /\ backup = start /\ recipe /= None /\ recipe /= backup

\* C5 as stated: the backup file is created at most once in a session
C5_OncePerSession == copies.total <= 1

\* C5: between two restores of a session (and before the first) the backup
\* file is created at most once
C5_OncePerRestore == copies.since <= 1

\* the backup file has been created, restored from, and created again
C5_Witness == copies.total = 2 /\ copies.since = 1 /\ backup /= None

\* the components the analysis in cache reports as used: none when the call
\* had no library to look up and so never ran the analysis
Analysed(cache) == IF cache = None THEN {} ELSE cache[1]

\* C6: remove_ignored_lib_includes writes only a content with no more lines
\* than the original and at most half of the original's lines removed; when
\* the edit it computes removes more than half (or adds lines) the file keeps
\* its content
C6_Gate ==
    [][(last'.op = "remove_ignored_lib_includes" /\ recipe /= None) =>
          LET old == LineCount(recipe[1])
              new == LineCount(recipe'[1])
              edit == LineCount(IgnoredEdit(recipe[1], last'.order,
                                            Analysed(project_components_cache')))
          IN  /\ recipe' /= None
              /\ recipe' /= recipe => (new <= old /\ 2 * (old - new) <= old)
              /\ (2 * (old - edit) > old \/ edit > old) => recipe' = recipe]_vars

\* the call found two of three lines to remove and left the file as it was
C6_Witness ==
    /\ last.op = "remove_ignored_lib_includes" /\ last.order = <<"mqtt">>
    /\ start = Some(File(<<L_mqtt, L_text, L_mqtt>>, TRUE))
    /\ recipe = start

\* C7: remove_cpppath_entries never removes more than half of the lines of
\* the recipe file
C7_CpppathGate ==
    [][(last'.op = "remove_cpppath_entries" /\ recipe /= None) =>
          /\ recipe' /= None
          /\ 2 * (LineCount(recipe[1]) - LineCount(recipe'[1])) <= LineCount(recipe[1])]_vars

\* C8: after remove_ignored_lib_includes, the same call again (same ignored
\* set, same analysis) leaves the file as it is
C8_Idempotent ==
    (last.op = "remove_ignored_lib_includes" /\ ~last.failed /\ recipe /= None) =>
        IgnoredResult(recipe[1], last.order, Analysed(project_components_cache)) = recipe[1]

\* the arguments of the include entries of file f whose component (the
\* directory under "include") the analysis reports as used
UsedEntries(f, cache) ==
    {it.els : it \in {x \in UNION {Range(f.lines[i]) : i \in 1..Len(f.lines)} :
                         /\ x.k = "join" /\ Len(x.els) >= 2
                         /\ x.els[1] = "include" /\ IsUsed(x.els[2], cache)}}

\* the arguments of all join entries of file f
Entries(f) ==
    {it.els : it \in {x \in UNION {Range(f.lines[i]) : i \in 1..Len(f.lines)} :
                         x.k = "join"}}

\* C9: handle_lib_ignore leaves in the recipe file every include entry of a
\* component that the project analyzer reports as used
C9_UsedKept ==
    [][(last'.op = "handle_lib_ignore" /\ recipe /= None
        /\ project_components_cache' /= None) =>
          /\ recipe' /= None
          /\ UsedEntries(recipe[1], project_components_cache'[1]) \subseteq Entries(recipe'[1])]_vars

\* C10: no critical component is in ignored_libs, and of the list
\* [esp_timer, esp_camera] only esp_camera gets into it
C10_NoCritical ==
    /\ ignored_libs \cap critical_components = {}
    /\ env.lib_ignore = <<"esp_timer", "esp_camera">> => ignored_libs \subseteq {"esp_camera"}

\* handle_lib_ignore has processed the list [esp_timer, esp_camera]
C10_Witness ==
    /\ env.lib_ignore = <<"esp_timer", "esp_camera">>
    /\ last.op \in {"handle_lib_ignore", "handle_component_settings"}
    /\ ignored_libs = {"esp_camera"}

\* C11: a handle_component_settings call that directly follows a call with
\* the same flags (the manifest written both times) leaves the manifest
\* files, the recipe file, removed_components and ignored_libs as they are,
\* and appends entries to the change log
C11_SecondCallIdle ==
    [][(/\ last.op = "handle_component_settings" /\ ~last.failed
        /\ last'.op = "handle_component_settings" /\ ~last'.failed
        /\ last'.args = last.args) =>
          /\ recipe' = recipe
          /\ framework_yml' = framework_yml /\ project_yml' = project_yml
          /\ removed_components' = removed_components
          /\ ignored_libs' = ignored_libs
          /\ outcome'.log /= <<>>]_vars

\* a call of _add_components with a list of one entry: the entry after
\* trimming, the place of its first '@' (0: none), the dependencies given to
\* the call, and those that result from adding name with version to them
AddEntry == Strip(last.args[2][1])
FirstAt == FindFrom(AddEntry, "@", 1)
Given == setdefault(last.args[1].v).dependencies
Adding(name, version) ==
    IF HasKey(Given, name) THEN Given
    ELSE Given \cup {<<name, [version |-> version, scalar |-> FALSE]>>}

\* C12 as stated: an add entry of four characters or less (after trimming)
\* adds nothing; a longer one adds the text before its first '@' as the name
\* with the text after it as the version, and with version "*" when it has
\* no '@'
C12_ParseAsStated ==
    (last.op = "_add_components" /\ Len(last.args[2]) = 1) =>
        outcome.ret.v.dependencies =
            IF Len(AddEntry) <= 4 THEN Given
            ELSE IF FirstAt = 0 THEN Adding(AddEntry, "*")
            ELSE Adding(SubSeq(AddEntry, 1, FirstAt - 1),
                        SubSeq(AddEntry, FirstAt + 1, Len(AddEntry)))

\* C12: an add entry of four characters or less (after trimming) adds
\* nothing; a longer one adds the text before its first '@' as the name and
\* the text after it as the version, each with the whitespace around it
\* removed, and with version "*" when it has no '@'
C12_Parse ==
    (last.op = "_add_components" /\ Len(last.args[2]) = 1) =>
        outcome.ret.v.dependencies =
            IF Len(AddEntry) <= 4 THEN Given
            ELSE IF FirstAt = 0 THEN Adding(AddEntry, "*")
            ELSE Adding(Strip(SubSeq(AddEntry, 1, FirstAt - 1)),
                        Strip(SubSeq(AddEntry, FirstAt + 1, Len(AddEntry))))

\* an entry with blanks around its '@' has been added under its trimmed name
\* with its trimmed version
C12_Witness ==
    /\ last.op = "_add_components" /\ last.args[2] = <<"eee @e">>
    /\ last.args[1] = Dict(<<>>)
    /\ outcome.ret = Dict([dependencies |-> {<<"eee", [version |-> "e", scalar |-> FALSE]>>}])

\* C13: _add_components leaves the entry of every name that is a key of the
\* dependencies as it is, whatever version its add entry gives, and appends
\* no "Added component" entry for that name (and at most one for any name)
C13_PresentKept ==
    last.op = "_add_components" =>
        \A i \in 1..Len(last.args[2]) :
            LET component == Strip(last.args[2][i])
                name == _parse_component_entry(component)[1]
                IsAdded(x) == x = Entry("Added component", name)
                added == Len(SelectSeq(outcome.log, IsAdded))
            IN  Len(component) > 4 =>
                    /\ added <= 1
                    /\ HasKey(Given, name) =>
                           /\ Lookup(outcome.ret.v.dependencies, name) = Lookup(Given, name)
                           /\ added = 0

\* the call was given add entries with two other versions of a component
\* that was in the manifest, and left the manifest as it was
C13_Witness ==
    /\ last.op = "_add_components"
    /\ last.args[2] = <<"mqtt_client@2.0", "mqtt_client@3.0">>
    /\ HasKey(Given, "mqtt_client")
    /\ Lookup(Given, "mqtt_client") = [version |-> "1.0", scalar |-> FALSE]
    /\ outcome.ret = last.args[1] /\ outcome.log = <<>>

Unloadable(file) ==
    file = None \/ \E i \in 1..Len(file[1]) : file[1][i].k \in {"junk", "bytes"}

\* C15: load_component_yml on a missing, unreadable or unparseable file
\* raises nothing and returns {dependencies: {}}
C15_LoadFailure ==
    (last.op = "load_component_yml" /\ Unloadable(project_yml)) =>
        ~outcome.raised /\ outcome.ret = Dict([dependencies |-> {}])

\* the load of a file whose second line is no YAML has returned
C15_Witness ==
    /\ last.op = "load_component_yml"
    /\ project_yml = Some(<<PairLine("version", "1.0.0"), JunkLine>>)
    /\ outcome.ret = Dict([dependencies |-> {}])

\* C16: whatever the file holds, load_component_yml returns a dictionary with
\* the key "dependencies"
C16_HasDependencies ==
    last.op = "load_component_yml" =>
        outcome.ret.type = "dict" /\ "dependencies" \in DOMAIN outcome.ret.v

\* C17: a handle_component_settings call whose save_component_yml cannot
\* write the manifest does not raise and appends the error entry of the save;
\* the cleanup of the removed components has run (no include directory of a
\* removed component is left) and handle_lib_ignore has run (ignored_libs
\* holds the entries of lib_ignore, and their processing is logged)
C17_SaveFailure ==
    [][(last'.op = "handle_component_settings" /\ last'.failed) =>
          /\ ~outcome'.raised
          /\ \E path \in {"framework", "project"} :
                 Entry("Error saving component configuration", path) \in Range(outcome'.log)
          /\ include_dirs' \cap removed_components' = {}
          /\ ignored_libs' = IgnoredAfter(ignored_libs, arduino_libraries_cache, env)
          /\ LibIgnoreEntries(arduino_libraries_cache, env) /= <<>> =>
                 Entry("Processed ignored libraries", "") \in Range(outcome'.log)]_vars

\* the save of a call that removed components failed; the directory of the
\* removed component is gone and the ignored libraries have been processed
C17_Witness ==
    /\ last.op = "handle_component_settings" /\ last.failed
    /\ last.args = <<FALSE, TRUE>>
    /\ removed_components = {"mqtt", "foo"} /\ include_dirs = {"bt"}
    /\ ignored_libs = {"esp32", "mqtt"}
    /\ Entry("Removed include directory", "mqtt") \in Range(outcome.log)
    /\ Entry("Processed ignored libraries", "") \in Range(outcome.log)

\* C18: remove_ignored_lib_includes never raises; when reading the recipe
\* file fails, the file keeps its content and the error is appended to the
\* change log
C18_NeverRaises ==
    [][last'.op = "remove_ignored_lib_includes" =>
          /\ ~outcome'.raised
          /\ (last'.failed /\ recipe /= None) =>
                 /\ recipe' = recipe
                 /\ outcome'.log = <<Entry("Error processing ignored library includes", "")>>]_vars

\* the call could not read a recipe file that has entries of the ignored
\* library, and left it as it was
C18_Witness ==
    /\ last.op = "remove_ignored_lib_includes" /\ last.failed /\ last.order = <<"mqtt">>
    /\ start = Some(File(<<L_text, L_mqtt, L_text>>, TRUE)) /\ recipe = start
    /\ outcome.log = <<Entry("Error processing ignored library includes", "")>>

\* C19: no step of a session takes an element out of ignored_libs or out of
\* removed_components
C19_SetsGrow ==
    [][/\ removed_components \subseteq removed_components'
       /\ ignored_libs \subseteq ignored_libs']_vars

\* a restore has run and both sets still hold what the calls before it put
\* into them
C19_Witness ==
    /\ last.op = "restore" /\ last.prev = "handle_component_settings"
    /\ removed_components = {"mqtt", "foo"} /\ ignored_libs = {"esp_wifi", "bt"}

\* the keywords component_patterns and lib_dep_mapping hold for esp_wifi, and
\* the scanned files of the project
WifiPatterns == UNION {x.keywords : x \in {y \in component_patterns : y.component = "esp_wifi"}}
WifiKeywords == UNION {x.keywords : x \in {y \in lib_dep_mapping : y.component = "esp_wifi"}}
Scanned == {x \in env.sources : \E ext \in SourceExtensions : EndsWith(x.name, ext)}

\* C20: is_component_used_in_project("esp_wifi") returns true when a scanned
\* file contains "wifi" in any letter case, and false when no scanned file
\* contains a pattern of esp_wifi and no lib_deps entry one of its keywords;
\* no other component the tables can detect makes it true
C20_WifiUsed ==
    /\ \A x \in component_patterns \cup lib_dep_mapping :
           x.component /= "esp_wifi" => ~IsUsed("esp_wifi", {x.component})
    /\ (last.op = "is_component_used_in_project" /\ last.args = <<"esp_wifi">>) =>
           /\ (\E x \in Scanned : Contains(Lower(x.content), "wifi")) => outcome.ret = TRUE
           /\ (/\ \A x \in Scanned : \A pattern \in WifiPatterns :
                      ~Contains(Lower(x.content), pattern)
               /\ \A i \in 1..Len(env.lib_deps) : \A keyword \in WifiKeywords :
                      ~Contains(Upper(env.lib_deps[i]), keyword))
                  => outcome.ret = FALSE

\* the call has returned false for a project in which eight other components
\* were detected
C20_Witness ==
    /\ last.op = "is_component_used_in_project" /\ last.args = <<"esp_wifi">>
    /\ outcome.ret = FALSE
    /\ project_components_cache /= None
    /\ Cardinality(project_components_cache[1]) >= 8

\* the name given to the last convert_lib_name_to_include call, in lower
\* case and with the prefixes and suffixes removed
LookupName == last.args[1]
LookupCleaned == RemoveSuffixes(RemovePrefixes(Lower(LookupName), 1), 1)

\* no entry of the framework's libraries answers the lookup of the name
NoLibraryEntry ==
    /\ ~HasKey(arduino_libraries_cache[1], Lower(LookupName))
    /\ ~HasKey(arduino_libraries_cache[1], LookupCleaned)

\* C21 as stated: with no library entry for the name, BluetoothSerial gives
\* bt, WiFi gives esp_wifi and some_unknown_xyz gives itself
C21_LookupAsStated ==
    (last.op = "convert_lib_name_to_include" /\ NoLibraryEntry) =>
        /\ LookupName = "BluetoothSerial" => outcome.ret = "bt"
        /\ LookupName = "WiFi" => outcome.ret = "esp_wifi"
        /\ LookupName = "some_unknown_xyz" => outcome.ret = "some_unknown_xyz"

\* C21: convert_lib_name_to_include never raises; with no library entry for
\* the name, BluetoothSerial gives bt, some_unknown_xyz gives itself and WiFi
\* gives wifi; WiFi gives esp_wifi when the framework's libraries hold the
\* WiFi library, whose entry supplies that name
C21_Lookup ==
    last.op = "convert_lib_name_to_include" =>
        /\ ~outcome.raised
        /\ NoLibraryEntry =>
              /\ LookupName = "BluetoothSerial" => outcome.ret = "bt"
              /\ LookupName = "WiFi" => outcome.ret = "wifi"
              /\ LookupName = "some_unknown_xyz" => outcome.ret = "some_unknown_xyz"
        /\ (LookupName = "WiFi" /\ env.libraries = CoreLibraries) =>
              outcome.ret = "esp_wifi"

\* WiFi was looked up with no libraries directory in the framework
C21_Witness ==
    /\ last.op = "convert_lib_name_to_include" /\ LookupName = "WiFi"
    /\ env.libraries = <<>> /\ arduino_libraries_cache = Some({})
    /\ outcome.ret = "wifi"

\* C25: once the analysis has run (its result may be the empty set) no step
\* replaces the cached set, and is_component_used_in_project answers from
\* that set whatever the project's files and lib_deps are by then
C25_AnalysedOnce ==
    [][project_components_cache /= None =>
          /\ project_components_cache' = project_components_cache
          /\ last'.op = "is_component_used_in_project" =>
                outcome'.ret = IsUsed(last'.args[1], project_components_cache[1])]_vars

\* the first analysis found nothing, the project was then edited to use WiFi,
\* and the analyzer still answers that esp_wifi is not used
C25_Witness ==
    /\ last.op = "is_component_used_in_project" /\ last.args = <<"esp_wifi">>
    /\ project_components_cache = Some({})
    /\ "esp_wifi" \in analyze_project_dependencies(env.sources, env.lib_deps)
    /\ outcome.ret = FALSE

\* C22: get_or_create_component_yml returns the framework's manifest when it
\* exists, else the project's manifest when it exists, else it creates the
\* default manifest in the project's source directory and returns that; for
\* an existing manifest the .orig file is created only when there is none,
\* and an existing .orig file keeps its content
C22_GetOrCreate ==
    [][last'.op = "get_or_create_component_yml" =>
          /\ framework_yml' = framework_yml
          /\ outcome'.ret = IF framework_yml /= None THEN "framework" ELSE "project"
          /\ project_yml' = IF framework_yml = None /\ project_yml = None
                            THEN Some(yaml_dump(Dict(default_content)))
                            ELSE project_yml
          /\ framework_yml_orig' =
                IF framework_yml /= None /\ framework_yml_orig = None
                THEN framework_yml ELSE framework_yml_orig
          /\ project_yml_orig' =
                IF framework_yml = None /\ project_yml /= None /\ project_yml_orig = None
                THEN project_yml ELSE project_yml_orig]_vars

\* both manifests exist; the call returned the framework's one and left the
\* .orig file of an earlier build, which differs from the manifest, as it was
C22_Witness ==
    /\ last.op = "get_or_create_component_yml" /\ outcome.ret = "framework"
    /\ framework_yml /= None /\ project_yml /= None
    /\ framework_yml_orig = EarlierManifest /\ framework_yml_orig /= framework_yml
    /\ project_yml_orig = None

\* C23: when the project's environment has the option custom_component_add,
\* the build script calls handle_component_settings with add_components true,
\* also when neither custom_component_remove nor lib_ignore is configured
C23_AddFlag ==
    [][(last.op = "init" /\ last'.op /= "init" /\ has_option(env, "custom_component_add")) =>
          /\ last'.op = "handle_component_settings"
          /\ last'.args[1] = TRUE]_vars

\* the names of ignored_libs that the analysis reports as used, and how often
\* the last call appended the entry e to the change log
UsedIgnored == {name \in ignored_libs : IsUsed(name, Analysed(project_components_cache))}
Appended(e) == Cardinality({i \in DOMAIN outcome.log : outcome.log[i] = e})

\* C24: for each name of the ignored set that is_component_used_in_project
\* reports as used, remove_ignored_lib_includes appends one "Skipping
\* removal" entry and no "Removed include entries" entry, and writes what it
\* writes for the ignored set without these names
C24_SkipUsed ==
    [][(last'.op = "handle_lib_ignore" /\ recipe /= None /\ ignored_libs' /= {}) =>
          LET cache == Analysed(project_components_cache')
              used == {name \in ignored_libs' : IsUsed(name, cache)}
          IN  /\ \A name \in used :
                    /\ Cardinality({i \in DOMAIN outcome'.log : outcome'.log[i] =
                           Entry("Skipping removal of library", name)}) = 1
                    /\ Entry("Removed include entries for library", name)
                           \notin Range(outcome'.log)
              /\ \E order \in Orders(ignored_libs' \ used) :
                    recipe' = Some(IgnoredResult(recipe[1], order, {}))]_vars

\* BluetoothSerial is ignored and used by the sketch: the call skipped bt and
\* the recipe file still has the entry of bt
C24_Witness ==
    /\ last.op = "handle_lib_ignore" /\ recipe /= None
    /\ UsedIgnored = {"bt"}
    /\ Appended(Entry("Skipping removal of library", "bt")) = 1
    /\ \E i \in 1..Len(recipe[1].lines) : recipe[1].lines[i] = L_bt

\* the manifest handle_component_settings works on, what it loads from it,
\* and the names of custom_component_remove that are no key of its
\* dependencies
ManifestFile == IF framework_yml /= None THEN framework_yml ELSE project_yml
Loaded ==
    load_component_yml(IF ManifestFile /= None THEN ManifestFile
                       ELSE Some(yaml_dump(Dict(default_content))))
Requested ==
    {Strip(line) : line \in Range(SplitLines(env.custom_component_remove))} \ {""}
Missing ==
    {name \in Requested :
        ~("dependencies" \in DOMAIN Loaded.v /\ HasKey(Loaded.v.dependencies, name))}

BeforeFirstSave(path, manifest) ==
    IF presave[path] = <<>> THEN manifest ELSE presave[path][1]

\* C26: in a session that starts with no .orig file, an .orig file that
\* exists holds the content its manifest had before the session's first save
\* to it, also when the session itself created the manifest
C26_OrigBeforeFirstSave ==
    /\ framework_yml_orig /= None =>
          framework_yml_orig = BeforeFirstSave("framework", framework_yml)
    /\ project_yml_orig /= None =>
          project_yml_orig = BeforeFirstSave("project", project_yml)

\* C28: two sessions for different MCU targets: neither accesses the backup
\* file of the other, neither raises, and a session that has completed its
\* restore finds its own recipe file with the original content
C28_Isolated ==
    (sessions /= <<>> /\ sessions[1].mcu /= sessions[2].mcu) =>
        \A s \in DOMAIN sessions :
            /\ backup_path(sessions[3 - s].mcu) \notin sessions[s].touched
            /\ sessions[s].pc /= "raised"
            /\ sessions[s].pc = "done" =>
                  disk[build_py_path(sessions[s].mcu)] = Some(RaceRecipe)

\* both sessions have made their backup, edited and restored, and the first
\* has completed while the recipe file of the second was still edited
C28_Witness ==
    /\ sessions /= <<>> /\ sessions[1].mcu /= sessions[2].mcu
    /\ sessions[1].pc = "done" /\ sessions[2].pc = "restore_write"
    /\ disk[build_py_path(sessions[2].mcu)] /= Some(RaceRecipe)
    /\ \A s \in DOMAIN sessions : backup_path(sessions[s].mcu) \in sessions[s].touched

\* C29: two sessions for the same MCU target: once both have completed
\* restore no backup file is left, whatever the recipe file then holds;
\* C29_Witness is the state the claim names, in which it holds edited content
C29_NoBackupLeft ==
    (/\ sessions /= <<>> /\ sessions[1].mcu = sessions[2].mcu
     /\ \A s \in DOMAIN sessions : sessions[s].pc = "done") =>
        disk[backup_path(sessions[1].mcu)] = None

\* both sessions have completed restore, the recipe file differs from its
\* original content and there is no backup file
C29_Witness ==
    /\ sessions /= <<>> /\ sessions[1].mcu = sessions[2].mcu
    /\ \A s \in DOMAIN sessions : sessions[s].pc = "done"
    /\ disk[build_py_path(sessions[1].mcu)] /= Some(RaceRecipe)
    /\ disk[backup_path(sessions[1].mcu)] = None

\* C30: under every interleaving of the threads that call
\* check_and_warn_long_path_support and apply_include_shortening, the body of
\* the long-path check has run at most once, and the shortening result
\* message or the no-framework-paths warning has been printed by at most one
\* call
C30_OncePerProcess ==
    /\ printed.long_path <= 1
    /\ printed.applied + printed.no_framework <= 1

\* both messages are out, and a second call of each function by another
\* thread has come back without printing
C30_Witness ==
    /\ threads /= <<>>
    /\ \A t \in DOMAIN threads : threads[t].pc = "idle" /\ threads[t].calls = MaxCalls
    /\ printed.long_path = 1
    /\ printed.applied + printed.no_framework = 1

=============================================================================
